---------------------------- MODULE Spec2Model ----------------------------
(***************************************************************************)
(* Model of examples/rtl_433_prometheus_relay.py: the ingestion loop       *)
(* (rtl_433.loop), the log garbage collector (rtl_433.clean_log) and the   *)
(* /metrics renderer (rtl_433.metrics) that the httpd thread runs while    *)
(* the loop keeps appending.                                               *)
(*                                                                         *)
(* Time is counted in ticks of 1/TicksPerSec second, so that the half      *)
(* second of the loop's timestamp check is a whole number of ticks.        *)
(* Floating point readings are counted in tenths.                          *)
(***************************************************************************)
EXTENDS Integers, Sequences, FiniteSets, TLC

VARIABLES
    now,        \* time.time(): the wall clock, in ticks
    status,     \* "running", or how the process ended: "eof", "exception", "os_exit"
    log,        \* self.log: the list of (ts, id, var, val) the loop appends to
    last,       \* loop(): last, identity -> timestamp of its latest event
    n,          \* loop(): n, lines that reached the end of the loop body
    export,     \* _EXPORT_TIMESTAMPS
    r_pc,       \* metrics(): "idle", "iter", "walk", "join"
    r_now,      \* metrics(): now
    r_alias,    \* the list reversed() iterates is still the object self.log names
    r_snap,     \* that list's items, once self.log names another object
    r_len,      \* len() of that list when reversed() was called
    r_idx,      \* the reverse iterator's index (1-based; 0 when exhausted)
    r_seen,     \* metrics(): seen
    r_ret,      \* metrics(): ret, as <<var, lines>> pairs in insertion order
    r_known,    \* history: last, as it was when reversed() was called
    r_began,    \* history: self.log, as it was when reversed() was called
    g_appended, \* history: every entry the loop has appended to self.log
    c_calls,    \* history: clean_log() calls made in succession at one clock
                \* reading with nothing appended in between, counted up to 2
    c_at,       \* history: time.time() in those calls; -1 when c_calls = 0
    c_pre,      \* history: self.log as the first of those calls found it
    c_once,     \* history: self.log as the first of those calls left it
    l_read,     \* loop(): lines taken from self.stream so far
    g_offered,  \* history: the entries that every event taken in would append
                \* if it were retained, retained or not
    r_offered,  \* history: g_offered, as it was when reversed() was called
    g_back,     \* history: the wall clock has been set back
    r_prev,     \* history: the request answered before: its now, the list it
                \* walked and its ret
    e_pkt,      \* loop(): pkt, an event as json.loads returned it
    e_pc,       \* that event's pass of the loop body: "in", "out", "raised"
    e_ts,       \* loop(): ts of that pass; -1 before
    e_id,       \* loop(): id of that pass; <<>> before
    e_new,      \* loop(): new of that pass; <<>> before
    s_dgram,    \* syslog_reader(): pkt, the datagram received
    s_pc,       \* syslog_reader(): "idle", "recv" (pkt is in), "next" (back at
                \* recvfrom)
    s_out,      \* syslog_reader(): the lines that datagram made it yield
    h_timeouts, \* rtl_433_mqtt_hass: discovery_timeouts, path -> time
    h_path,     \* publish_config(): path of the call made last; "" before
    h_ret,      \* publish_config(): what that call returned
    h_pubs,     \* history: <<path, time>> of every mqttc.publish() of a config
    g_seen,     \* history: <<id, ts>> of every event that got to "last[id] = ts",
                \* in order
    d_last,     \* rtl_433_mqtt_relay dedup: <<>> for (last_report, last_now) =
                \* (None, None), or <<[report, n]>>
    d_report,   \* is_interesting(): report of the call made last
    d_ret,      \* is_interesting(): what that call returned
    q_j1,       \* equiv(): j1
    q_j2,       \* equiv(): j2
    q_pc,       \* equiv(): "idle", "call", "done"
    q_ret,      \* equiv(): what it returned
    f_cache,    \* mqtt_filter: dedup_cache, key -> expiry
    f_msg,      \* publish_dedup(): <<topic, payload>> of the call made last
    f_pub,      \* publish_dedup(): that call went to mqtt_client.publish
    f_handled   \* history: key -> time of the latest publish_dedup call for it

vars == <<now, status, log, last, n, export, r_pc, r_now, r_alias, r_snap, r_len,
          r_idx, r_seen, r_ret, r_known, r_began, g_appended, c_calls, c_at, c_pre, c_once,
          l_read, g_offered, r_offered, g_back, r_prev, e_pkt, e_pc, e_ts, e_id,
          e_new, s_dgram, s_pc, s_out, h_timeouts, h_path, h_ret, h_pubs, g_seen,
          d_last, d_report, d_ret, q_j1, q_j2, q_pc, q_ret, f_cache, f_msg, f_pub,
          f_handled>>

renderVars == <<r_pc, r_now, r_alias, r_snap, r_len, r_idx, r_seen, r_ret, r_known,
               r_began,
                r_offered>>

cleanHist == <<c_calls, c_at, c_pre, c_once>>

eventVars == <<e_pkt, e_pc, e_ts, e_id, e_new>>

syslogVars == <<s_dgram, s_pc, s_out>>

hassVars == <<h_timeouts, h_path, h_ret, h_pubs>>

dedupVars == <<d_last, d_report, d_ret>>

equivVars == <<q_j1, q_j2, q_pc, q_ret>>

filterVars == <<f_cache, f_msg, f_pub, f_handled>>

mqttVars == <<dedupVars, equivVars, filterVars>>

extVars == <<eventVars, syslogVars, hassVars, mqttVars>>

relayVars == <<status, log, last, n, export, renderVars, g_appended, cleanHist,
               l_read, g_offered, g_back, r_prev, g_seen>>

---------------------------------------------------------------------------
(* Program constants.                                                      *)

TicksPerSec == 2

Half == TicksPerSec \div 2

_MIN_REPEAT_SECS == 3600

_MAX_AGE_SECS == 300

_BACKLOG_SECS == 60

_LOG_CLEAN_INTERVAL == 1000

_EXPORT_TIMESTAMPS == TRUE

\* clean_log(): "Time has gone the wrong way by a long time" threshold, seconds.
WRONG_WAY_SECS == 60

Secs(s) == s * TicksPerSec

_ID_FIELDS == << <<"model", "str">>, <<"type", "str">>, <<"subtype", "str">>,
                 <<"channel", "int">>, <<"id", "int">> >>

---------------------------------------------------------------------------
(* JSON values.  Every value is a record of the same shape so that values  *)
(* of different Python types can be compared.                              *)

None == [k |-> "none", s |-> "", i |-> 0]

JStr(s) == [k |-> "str", s |-> s, i |-> 0]

JInt(i) == [k |-> "int", s |-> "", i |-> i]

\* A float, in tenths.
JFlt(x) == [k |-> "float", s |-> "", i |-> x]

\* A string holding an ISO-8601 time that denotes epoch tick t.
IsoStr(t) == [k |-> "isostr", s |-> "", i |-> t]

\* Largest integer whose decimal text the model parses back.
MaxInt == 9

DigitStr == <<"0", "1", "2", "3", "4", "5", "6", "7", "8", "9">>

RECURSIVE ToStr(_)
\* str(i) for an int i >= 0.
ToStr(i) == IF i < 10 THEN DigitStr[i + 1]
            ELSE ToStr(i \div 10) \o DigitStr[(i % 10) + 1]

IsDecimal(s) == \E i \in 0..MaxInt : ToStr(i) = s

ParseInt(s) == CHOOSE i \in 0..MaxInt : ToStr(i) = s

\* str(v): never raises; str(None) is the text "None".
PyStr(v) ==
    CASE v.k = "none"   -> JStr("None")
      [] v.k = "str"    -> v
      [] v.k = "int"    -> JStr(ToStr(v.i))
      [] v.k = "float"  -> JStr(ToStr(v.i \div 10) \o "." \o ToStr(v.i % 10))
      [] v.k = "isostr" -> v

\* int(v) succeeds.
IntOk(v) == \/ v.k = "int"
            \/ v.k = "float"
            \/ v.k = "str" /\ IsDecimal(v.s)

PyInt(v) ==
    CASE v.k = "int"   -> v
      [] v.k = "float" -> JInt(v.i \div 10)
      [] v.k = "str"   -> JInt(ParseInt(v.s))

\* float(v) succeeds; otherwise it raises ValueError or TypeError.
FloatOk(v) == \/ v.k = "int"
              \/ v.k = "float"
              \/ v.k = "str" /\ IsDecimal(v.s)

\* float(v), in tenths.
PyFloat(v) ==
    CASE v.k = "int"   -> v.i * 10
      [] v.k = "float" -> v.i
      [] v.k = "str"   -> ParseInt(v.s) * 10

---------------------------------------------------------------------------
(* Dictionaries are sequences of <<key, value>> pairs with distinct keys,  *)
(* in insertion order.                                                     *)

HasKey(pkt, key) == \E j \in 1..Len(pkt) : pkt[j][1] = key

\* pkt.pop(key, None): the value.
PopValue(pkt, key) ==
    IF HasKey(pkt, key)
    THEN pkt[CHOOSE j \in 1..Len(pkt) : pkt[j][1] = key][2]
    ELSE None

\* pkt.pop(key, None): what is left of the dictionary.
PopRest(pkt, key) == SelectSeq(pkt, LAMBDA p : p[1] # key)

\* Put as d.setdefault(key, v): a key that is there keeps its value.
PutAbsent(d, key, v) ==
    [x \in DOMAIN d \cup {key} |-> IF x \in DOMAIN d THEN d[x] ELSE v]

\* A function with one more (or one changed) key: d[key] = v.
Put(d, key, v) == [x \in DOMAIN d \cup {key} |-> IF x = key THEN v ELSE d[x]]

\* d.get(key, dflt)
Get(d, key, dflt) == IF key \in DOMAIN d THEN d[key] ELSE dflt

EmptyDict == [x \in {} |-> 0]

Range(s) == {s[j] : j \in 1..Len(s)}

---------------------------------------------------------------------------
(* rtl_433.grab_id                                                         *)

\* Coerce with "except (ValueError, TypeError): v = None".
CoerceOrNone(v, ftype) ==
    IF ftype = "str" THEN PyStr(v)
    ELSE IF IntOk(v) THEN PyInt(v) ELSE None

\* try: v = ftype(v) / except (ValueError, TypeError): pass
Coerce(v, ftype) ==
    IF ftype = "str" THEN PyStr(v)
    ELSE IF IntOk(v) THEN PyInt(v) ELSE v

\* The tuple grab_id returns.
grab_id(pkt) ==
    [j \in 1..Len(_ID_FIELDS) |->
        Coerce(PopValue(pkt, _ID_FIELDS[j][1]), _ID_FIELDS[j][2])]

\* grab_rest with "v = pkt.get(field)": the identity fields stay in pkt.
grab_restKept(pkt) == pkt

\* The dictionary grab_id leaves behind: every identity field popped.
grab_rest(pkt) ==
    SelectSeq(pkt, LAMBDA p : \A j \in 1..Len(_ID_FIELDS) : p[1] # _ID_FIELDS[j][1])

---------------------------------------------------------------------------
(* rtl_433.loop: one line of the stream                                    *)

Abs(x) == IF x < 0 THEN -x ELSE x

\* dateutil.parser.isoparse(pkt.pop("time")) returns: the field is absent
\* (KeyError, caught) or holds an ISO time.  Anything else raises ValueError
\* or TypeError, which loop() does not catch.
TimeOk(pkt) == ~HasKey(pkt, "time") \/ PopValue(pkt, "time").k = "isostr"

\* ts before the whole-second check.
BaseTs(pkt, t) == IF HasKey(pkt, "time") THEN PopValue(pkt, "time").i ELSE t

\* FuzzTs with "if abs(now - ts) < 1".
FuzzTsNear(ts, t) ==
    IF ts % TicksPerSec = 0 /\ Abs(t - ts) < TicksPerSec THEN t ELSE ts

\* if int(ts) == ts: if abs(now - (ts + 0.5)) < 1: ts = now
FuzzTs(ts, t) ==
    IF ts % TicksPerSec = 0 /\ Abs(t - (ts + Half)) < TicksPerSec THEN t ELSE ts

EventTs(pkt, t) == FuzzTs(BaseTs(pkt, t), t)

\* Ago with "last.get(id, ts)": an unseen identity counts as seen just now.
AgoUnseenNow(lastmap, id, ts) == ts - Get(lastmap, id, ts)

\* ago = ts - last.get(id, 0)
Ago(lastmap, id, ts) == ts - Get(lastmap, id, 0)

\* Retained with "if ago >= self._MIN_REPEAT_SECS".
RetainedAfterInterval(ago) == ago >= Secs(_MIN_REPEAT_SECS)

\* Retained with "if ago <= self._MIN_REPEAT_SECS".
RetainedUpTo(ago) == ago <= Secs(_MIN_REPEAT_SECS)

\* if ago < self._MIN_REPEAT_SECS:
Retained(ago) == ago < Secs(_MIN_REPEAT_SECS)

Entry(ts, id, var, val) == [ts |-> ts, id |-> id, var |-> var, val |-> val]

RECURSIVE NumericEntriesStop(_, _, _)
\* NumericEntries with the try around the whole for loop: the first value
\* float() rejects ends the walk over the fields.
NumericEntriesStop(ts, id, pkt) ==
    IF pkt = <<>> \/ ~FloatOk(Head(pkt)[2]) THEN <<>>
    ELSE <<Entry(ts, id, Head(pkt)[1], PyFloat(Head(pkt)[2]))>>
         \o NumericEntriesStop(ts, id, Tail(pkt))

RECURSIVE NumericEntries(_, _, _)
\* new: one entry per item of pkt whose value float() accepts, in order.
NumericEntries(ts, id, pkt) ==
    IF pkt = <<>> THEN <<>>
    ELSE LET p == Head(pkt)
         IN  (IF FloatOk(p[2]) THEN <<Entry(ts, id, p[1], PyFloat(p[2]))>> ELSE <<>>)
             \o NumericEntries(ts, id, Tail(pkt))

\* Extend storing each entry before its value is there.
ExtendUnfilled(lst, new) == lst \o [j \in 1..Len(new) |-> [new[j] EXCEPT !.val = 0]]

\* Extend with "self.log[0:0] = new": the entries go in at the front, in
\* place.
ExtendFront(lst, new) == new \o lst

\* self.log += new: the list object is extended in place.
Extend(lst, new) == lst \o new

---------------------------------------------------------------------------
(* rtl_433.clean_log                                                       *)

\* self.log[0][0] - self.log[-1][0] > 60
WrongWay(lst) == lst[1].ts - lst[Len(lst)].ts > Secs(WRONG_WAY_SECS)

RECURSIVE FirstKeptStrict(_, _, _)
\* FirstKept with "if e[0] > min_ts".
FirstKeptStrict(lst, min_ts, i) ==
    IF i >= Len(lst) \/ lst[i].ts > min_ts THEN i
    ELSE FirstKeptStrict(lst, min_ts, i + 1)

RECURSIVE FirstKept(_, _, _)
\* The value of i after "for i, e in enumerate(self.log): if e[0] >= min_ts:
\* break", 1-based: the first entry at or after min_ts, or the last entry when
\* the loop runs to its end.
FirstKept(lst, min_ts, i) ==
    IF i >= Len(lst) \/ lst[i].ts >= min_ts THEN i
    ELSE FirstKept(lst, min_ts, i + 1)

\* clean_log keeping the last entry when time has gone the wrong way:
\* "self.log = self.log[-1:]".
clean_logKeepLast(lst, t) ==
    IF lst = <<>> THEN lst
    ELSE IF WrongWay(lst) THEN <<lst[Len(lst)]>>
    ELSE SubSeq(lst, FirstKept(lst, t - Secs(_MAX_AGE_SECS), 1), Len(lst))

\* clean_log with "self.log = self.log[i + 1:]".
clean_logSkipOne(lst, t) ==
    IF lst = <<>> THEN lst
    ELSE IF WrongWay(lst) THEN <<>>
    ELSE SubSeq(lst, FirstKept(lst, t - Secs(_MAX_AGE_SECS), 1) + 1, Len(lst))

\* clean_log with "self.log = self.log[:i]": the entries before the first one
\* kept stay, the others go.
clean_logHead(lst, t) ==
    IF lst = <<>> THEN lst
    ELSE IF WrongWay(lst) THEN <<>>
    ELSE SubSeq(lst, 1, FirstKept(lst, t - Secs(_MAX_AGE_SECS), 1) - 1)

\* The list self.log names after clean_log() called at time t.
clean_log(lst, t) ==
    IF lst = <<>> THEN lst
    ELSE IF WrongWay(lst) THEN <<>>
    ELSE SubSeq(lst, FirstKept(lst, t - Secs(_MAX_AGE_SECS), 1), Len(lst))

\* clean_log() binds self.log to a new list object (it returns early on an
\* empty log).
Rebinds(lst) == lst # <<>>

---------------------------------------------------------------------------
(* rtl_433.metrics                                                         *)

\* TooOld with ">=": "if now - ts >= self._MAX_AGE_SECS: break".
TooOldAtAge(t, e) == t - e.ts >= Secs(_MAX_AGE_SECS)

\* TooOld reading the clock in every pass: "if time.time() - ts > ...".
TooOldLive(t, e) == now - e.ts > Secs(_MAX_AGE_SECS)

\* TooOld with "self._MIN_REPEAT_SECS".
TooOldByRepeat(t, e) == t - e.ts > Secs(_MIN_REPEAT_SECS)

\* if now - ts > self._MAX_AGE_SECS: break
TooOld(t, e) == t - e.ts > Secs(_MAX_AGE_SECS)

\* Skipped with "seen.get(id, now)": an identity not met yet counts as met
\* just now.
SkippedUnseen(t, e, seen) ==
    t - e.ts > Secs(_BACKLOG_SECS) /\ e.ts < Get(seen, e.id, t)

\* Skipped without the backlog test: "if ts < seen.get(id, 0): continue".
SkippedOlder(t, e, seen) == e.ts < Get(seen, e.id, 0)

\* Skipped with "ts <= seen.get(id, 0)".
SkippedOrEqual(t, e, seen) ==
    t - e.ts > Secs(_BACKLOG_SECS) /\ e.ts <= Get(seen, e.id, 0)

\* if now - ts > self._BACKLOG_SECS and ts < seen.get(id, 0): continue
Skipped(t, e, seen) ==
    t - e.ts > Secs(_BACKLOG_SECS) /\ e.ts < Get(seen, e.id, 0)

\* if id not in seen: seen[id] = ts
Seen(seen, e) == IF e.id \in DOMAIN seen THEN seen ELSE Put(seen, e.id, e.ts)

RECURSIVE IdTags(_, _)
\* id_s: <<field, text>> for each identity field that is not None, from j on.
IdTags(id, j) ==
    IF j > Len(_ID_FIELDS) THEN <<>>
    ELSE (IF id[j] = None THEN <<>> ELSE << <<_ID_FIELDS[j][1], PyStr(id[j]).s>> >>)
         \o IdTags(id, j + 1)

\* "%d" % (ts * 1000)
Millis(ts) == (ts * 1000) \div TicksPerSec

\* "%f" % val: six decimals, here as a count of millionths.
FmtF(val) == val * 100000

\* "%s{%s} %f %d" or "%s{%s} %f"; ms is -1 when the line carries no timestamp.
FormatLine(e, exp) ==
    [var |-> e.var, tags |-> IdTags(e.id, 1), val |-> FmtF(e.val),
     ms |-> IF exp THEN Millis(e.ts) ELSE -1]

\* Emits with "elif ts <= seen[id]".
EmitsOlder(e, seen, exp) == exp \/ e.ts <= seen[e.id]

\* if self._EXPORT_TIMESTAMPS: ... elif ts == seen[id]: ...
Emits(e, seen, exp) == exp \/ e.ts = seen[e.id]

\* ret[var].append(line) on a defaultdict(list).
AddLine(ret, var, line) ==
    IF \E j \in 1..Len(ret) : ret[j][1] = var
    THEN [j \in 1..Len(ret) |->
            IF ret[j][1] = var THEN <<var, Append(ret[j][2], line)>> ELSE ret[j]]
    ELSE Append(ret, <<var, <<line>> >>)

RECURSIVE Joined(_)
\* The lines of "\n".join("\n".join(lines) for lines in ret.values()) + "\n".
Joined(ret) ==
    IF ret = <<>> THEN <<>> ELSE Head(ret)[2] \o Joined(Tail(ret))

---------------------------------------------------------------------------
(* Bounds of the model and the inputs it enumerates.                       *)

\* Clock readings explored: the first NumInstants of Offsets, in seconds after
\* StartTime.  Their differences meet the backlog window (60), the maximum
\* age (300) and the repeat interval (3600) exactly, and pass each of them.
NumInstants == 4

Offsets == <<0, 60, 300, 3600, 3660, 7200>>

\* The clock when the model starts: late enough after the epoch that a
\* timestamp read from it is not below _MIN_REPEAT_SECS.
StartTime == Secs(_MIN_REPEAT_SECS)

Instant(j) == StartTime + Secs(Offsets[j])

Instants == {Instant(j) : j \in 1..NumInstants}

\* Most entries self.log holds in the model.
MaxLog == 3

\* Lines the loop takes from the stream in one run of the model.
MaxLines == 3

\* How many lines before a multiple of _LOG_CLEAN_INTERVAL a run may start.
Lead == 2

DevA == << <<"model", JStr("A")>>, <<"id", JInt(7)>> >>

DevB == << <<"model", JStr("B")>>, <<"type", JStr("t")>>, <<"subtype", JStr("s")>>,
           <<"channel", JInt(1)>>, <<"id", JStr("2")>> >>

IdA == grab_id(DevA)

IdB == grab_id(DevB)

Temp == <<"temperature_C", JFlt(215)>>

Hum == <<"humidity", JInt(5)>>

Stat == <<"status", JStr("ok")>>

Bodies == {DevA \o <<Temp>>, DevB \o <<Temp, Stat, Hum>>}

\* The "time" field of a line: none, the epoch itself, or the second clock
\* reading (which is in the future, now or in the past as the clock moves).
TimeFields ==
    {<<>>} \cup {<< <<"time", IsoStr(t)>> >> : t \in {0, Instant(2)}}

\* The lines the stream may deliver.
Lines ==
    {[kind |-> "garbage", pkt |-> <<>>], [kind |-> "nondict", pkt |-> <<>>],
     [kind |-> "dict", pkt |-> << <<"time", JStr("bogus")>> >> \o DevA \o <<Temp>>]}
    \cup {[kind |-> "dict", pkt |-> tf \o b] : tf \in TimeFields, b \in Bodies}

\* Values of n a run of the model starts from: 0, and Lead lines before the
\* next call of clean_log().
StartCounts == {0, _LOG_CLEAN_INTERVAL - Lead}

\* The stream has lines left.
InBudget == l_read < MaxLines

---------------------------------------------------------------------------
(* The loop thread.                                                        *)

LineTs(line) == EventTs(line.pkt, now)

LineId(line) == grab_id(PopRest(line.pkt, "time"))

LineRest(line) == grab_rest(PopRest(line.pkt, "time"))

\* The entries of the line's numeric fields: what the line appends if it is
\* retained.
LineOffer(line) == NumericEntries(LineTs(line), LineId(line), LineRest(line))

\* new, or nothing when the line's identity was last seen too long ago.
LineNew(line) ==
    IF Retained(Ago(last, LineId(line), LineTs(line)))
    THEN NumericEntries(LineTs(line), LineId(line), LineRest(line))
    ELSE <<>>

\* CleanDue with "if n >= self._LOG_CLEAN_INTERVAL".
CleanDueFrom(count) == count >= _LOG_CLEAN_INTERVAL

\* if (n % self._LOG_CLEAN_INTERVAL) == 0
CleanDue(count) == count % _LOG_CLEAN_INTERVAL = 0

\* The list object that metrics() walks, or has just walked, is the one that
\* clean_log() is about to replace: from then on the walk is of the old object.
Detaches(lst) == r_pc \in {"walk", "join"} /\ r_alias /\ Rebinds(lst)

\* The history of clean_log() calls, when the call that finds lst is made;
\* again tells that nothing was appended since the call before.
CleanNoted(lst, again) ==
    IF again /\ c_calls >= 1 /\ c_at = now
    THEN /\ c_calls' = 2
         /\ UNCHANGED <<c_at, c_pre, c_once>>
    ELSE /\ c_calls' = 1
         /\ c_at' = now
         /\ c_pre' = lst
         /\ c_once' = clean_log(lst, now)

\* Entries were appended: the next clean_log() call starts a new succession.
CleanForgotten ==
    /\ c_calls' = 0
    /\ c_at' = -1
    /\ c_pre' = <<>>
    /\ c_once' = <<>>

\* No request has been answered yet.
NoRender == [t |-> -1, list |-> <<>>, ret |-> <<>>]

\* No request is being answered: the locals of metrics() at their initial values.
RenderIdle ==
    /\ r_pc = "idle"
    /\ r_now = 0
    /\ r_alias = TRUE
    /\ r_snap = <<>>
    /\ r_len = 0
    /\ r_idx = 0
    /\ r_seen = EmptyDict
    /\ r_ret = <<>>
    /\ r_known = EmptyDict
    /\ r_began = <<>>
    /\ r_offered = {}

\* The locals of metrics() go back to their initial values.
RenderReset ==
    /\ r_pc' = "idle"
    /\ r_now' = 0
    /\ r_alias' = TRUE
    /\ r_snap' = <<>>
    /\ r_len' = 0
    /\ r_idx' = 0
    /\ r_seen' = EmptyDict
    /\ r_ret' = <<>>
    /\ r_known' = EmptyDict
    /\ r_began' = <<>>
    /\ r_offered' = {}

\* Decodes taking whatever json.loads returns, without the isinstance test.
DecodesAny(line) == line.kind # "garbage"

\* json.loads(line) returns, and what it returns is a dict.
Decodes(line) == line.kind = "dict"

\* One pass of "for line in self.stream".  (g_offered is left to the
\* specification: it is kept where a property reads it.)
Loop(line) ==
    /\ status = "running"
    /\ InBudget
    /\ l_read' = l_read + 1
    /\ IF ~Decodes(line)
       THEN \* JSONDecodeError, or not a dict: continue
            UNCHANGED <<status, log, last, n, renderVars, g_appended, cleanHist>>
       ELSE IF ~TimeOk(line.pkt)
       THEN \* isoparse raises: the exception leaves loop() and ends the
            \* process, its httpd thread with it
            /\ status' = "exception"
            /\ RenderReset
            /\ UNCHANGED <<log, last, n, g_appended, cleanHist>>
       ELSE LET new  == LineNew(line)
                full == Extend(log, new)
                due  == CleanDue(n + 1)
            IN  /\ Len(full) <= MaxLog
                /\ last' = Put(last, LineId(line), LineTs(line))
                /\ n' = n + 1
                /\ log' = IF due THEN clean_log(full, now) ELSE full
                /\ r_alias' = IF due /\ Detaches(full) THEN FALSE ELSE r_alias
                /\ r_snap' = IF due /\ Detaches(full) THEN full ELSE r_snap
                /\ g_appended' = g_appended \cup Range(new)
                /\ IF due THEN CleanNoted(full, new = <<>>)
                   ELSE IF new # <<>> THEN CleanForgotten
                   ELSE UNCHANGED cleanHist
                /\ UNCHANGED <<status, r_pc, r_now, r_len, r_idx, r_seen, r_ret,
                               r_known, r_began, r_offered>>
    /\ UNCHANGED <<extVars, now, export, g_back, r_prev>>

\* The history of offered entries, kept along a pass of the loop: an event
\* that got past decoding offers the entries of its numeric fields.
Offers(line) ==
    g_offered' = IF line.kind = "dict" /\ TimeOk(line.pkt)
                 THEN g_offered \cup Range(LineOffer(line))
                 ELSE g_offered

\* The stream ends: loop() returns and the process exits, its httpd thread
\* with it.
Eof ==
    /\ status = "running"
    /\ status' = "eof"
    /\ RenderReset
    /\ UNCHANGED <<g_seen, extVars, now, log, last, n, export, g_back, r_prev, g_appended,
                   g_offered, l_read, cleanHist>>

\* Time passes.
Tick ==
    /\ status = "running"
    /\ \E t \in Instants : t > now /\ now' = t
    /\ UNCHANGED <<g_seen, extVars, status, log, last, n, export, g_back, r_prev, renderVars,
                   g_appended, g_offered, l_read, cleanHist>>

\* The wall clock is set back (time.time() is not monotonic).
ClockBack ==
    /\ status = "running"
    /\ \E t \in Instants : t < now /\ now' = t
    /\ g_back' = TRUE
    /\ UNCHANGED <<g_seen, extVars, r_prev, status, log, last, n, export, renderVars, g_appended,
                   g_offered, l_read, cleanHist>>

---------------------------------------------------------------------------
(* The httpd thread: MetricsHandler.do_GET calling rtl_433.metrics.        *)

\* The items of the list the walk iterates.
Walked == IF r_alias THEN log ELSE r_snap

\* ret = defaultdict(list); now = time.time(); seen = {}
MetricsBegin ==
    /\ status = "running"
    /\ r_pc = "idle"
    /\ r_pc' = "iter"
    /\ r_now' = now
    /\ UNCHANGED <<g_seen, extVars, now, status, log, last, n, export, g_back, r_prev, r_alias,
                   r_snap, r_len, r_idx, r_seen, r_ret, r_known, r_began, r_offered,
                   g_appended, g_offered, l_read, cleanHist>>

\* MetricsIter with "self.log.reverse()" for "reversed(self.log)": the list is
\* reversed in place and then walked from its end.
MetricsIterInPlace ==
    /\ status = "running"
    /\ r_pc = "iter"
    /\ r_pc' = "walk"
    /\ log' = [j \in 1..Len(log) |-> log[Len(log) + 1 - j]]
    /\ r_alias' = TRUE
    /\ r_snap' = <<>>
    /\ r_len' = Len(log)
    /\ r_idx' = Len(log)
    /\ r_known' = last
    /\ r_began' = log
    /\ r_offered' = g_offered
    /\ UNCHANGED <<g_seen, extVars, now, status, last, n, export, g_back, r_prev, r_now, r_seen,
                   r_ret, g_appended, g_offered, l_read, cleanHist>>

\* reversed(self.log)
MetricsIter ==
    /\ status = "running"
    /\ r_pc = "iter"
    /\ r_pc' = "walk"
    /\ r_alias' = TRUE
    /\ r_snap' = <<>>
    /\ r_len' = Len(log)
    /\ r_idx' = Len(log)
    /\ r_known' = last
    /\ r_began' = log
    /\ r_offered' = g_offered
    /\ UNCHANGED <<g_seen, extVars, now, status, log, last, n, export, g_back, r_prev, r_now,
                   r_seen, r_ret, g_appended, g_offered, l_read, cleanHist>>

\* MetricsNext with "continue" where the code has "break": an entry older than
\* _MAX_AGE_SECS is passed over and the walk goes on.
MetricsNextContinue ==
    /\ status = "running"
    /\ r_pc = "walk"
    /\ IF r_idx = 0
       THEN /\ r_pc' = "join"
            /\ UNCHANGED <<r_idx, r_seen, r_ret>>
       ELSE LET e == Walked[r_idx]
            IN  /\ r_idx' = r_idx - 1
                /\ r_pc' = "walk"
                /\ IF TooOld(r_now, e) \/ Skipped(r_now, e, r_seen)
                   THEN UNCHANGED <<r_seen, r_ret>>
                   ELSE /\ r_seen' = Seen(r_seen, e)
                        /\ r_ret' = IF Emits(e, Seen(r_seen, e), export)
                                    THEN AddLine(r_ret, e.var, FormatLine(e, export))
                                    ELSE r_ret
    /\ UNCHANGED <<g_seen, extVars, now, status, log, last, n, export, g_back, r_prev, r_now,
                   r_alias, r_snap, r_len, r_known, r_began, r_offered, g_appended,
                   g_offered, l_read, cleanHist>>

\* One pass of "for ts, id, var, val in reversed(self.log)", or its end.
MetricsNext ==
    /\ status = "running"
    /\ r_pc = "walk"
    /\ IF r_idx = 0 \/ TooOld(r_now, Walked[r_idx])
       THEN /\ r_pc' = "join"
            /\ UNCHANGED <<r_idx, r_seen, r_ret>>
       ELSE LET e == Walked[r_idx]
            IN  /\ r_idx' = r_idx - 1
                /\ r_pc' = "walk"
                /\ IF Skipped(r_now, e, r_seen)
                   THEN UNCHANGED <<r_seen, r_ret>>
                   ELSE /\ r_seen' = Seen(r_seen, e)
                        /\ r_ret' = IF Emits(e, Seen(r_seen, e), export)
                                    THEN AddLine(r_ret, e.var, FormatLine(e, export))
                                    ELSE r_ret
    /\ UNCHANGED <<g_seen, extVars, now, status, log, last, n, export, g_back, r_prev, r_now,
                   r_alias, r_snap, r_len, r_known, r_began, r_offered, g_appended,
                   g_offered, l_read, cleanHist>>

\* The response is written and the request is over.  (r_prev is left to the
\* specification: it is kept where a property reads it.)
MetricsReturn ==
    /\ status = "running"
    /\ r_pc = "join"
    /\ RenderReset
    /\ UNCHANGED <<g_seen, extVars, now, status, log, last, n, export, g_back, g_appended,
                   g_offered, l_read, cleanHist>>

\* handle_error as socketserver.BaseServer has it: the error is printed, the
\* request is dropped and the server goes on.
handle_errorInherited ==
    /\ status = "running"
    /\ r_pc = "join"
    /\ RenderReset
    /\ UNCHANGED <<g_seen, extVars, now, status, log, last, n, export, g_back, r_prev,
                   g_appended, g_offered, l_read, cleanHist>>

\* self.wfile.write raises (the client is gone): HTTPServer calls
\* MetricsServer.handle_error, which ends the process with os._exit(6).
handle_error ==
    /\ status = "running"
    /\ r_pc = "join"
    /\ status' = "os_exit"
    /\ RenderReset
    /\ UNCHANGED <<g_seen, extVars, now, log, last, n, export, g_back, r_prev, g_appended,
                   g_offered, l_read, cleanHist>>

---------------------------------------------------------------------------
(* The program.                                                            *)

\* No event is in a pass of the loop body on its own.
EventIdle ==
    /\ e_pkt = <<>>
    /\ e_pc = "idle"
    /\ e_ts = -1
    /\ e_id = <<>>
    /\ e_new = <<>>

\* No datagram has been received.
SyslogIdle ==
    /\ s_dgram = <<>>
    /\ s_pc = "idle"
    /\ s_out = <<>>

\* rtl_433_mqtt_hass is not running.
HassIdle ==
    /\ h_timeouts = EmptyDict
    /\ h_path = ""
    /\ h_ret = FALSE
    /\ h_pubs = {}

\* No dedup object of rtl_433_mqtt_relay has been asked anything.
DedupIdle ==
    /\ d_last = <<>>
    /\ d_report = EmptyDict
    /\ d_ret = FALSE

\* equiv() is not being called.
EquivIdle ==
    /\ q_j1 = EmptyDict
    /\ q_j2 = EmptyDict
    /\ q_pc = "idle"
    /\ q_ret = FALSE

\* mqtt_filter is not running.
FilterIdle ==
    /\ f_cache = EmptyDict
    /\ f_msg = <<>>
    /\ f_pub = FALSE
    /\ f_handled = EmptyDict

\* Neither of the MQTT scripts is running.
MqttIdle == DedupIdle /\ EquivIdle /\ FilterIdle

\* The relay as a fresh process that has read nothing.
RelayIdle ==
    /\ status = "running"
    /\ log = <<>>
    /\ n = 0
    /\ last = EmptyDict
    /\ export = _EXPORT_TIMESTAMPS
    /\ RenderIdle
    /\ g_appended = {}
    /\ c_calls = 0
    /\ c_at = -1
    /\ c_pre = <<>>
    /\ c_once = <<>>
    /\ l_read = 0
    /\ g_offered = {}
    /\ g_seen = <<>>
    /\ g_back = FALSE
    /\ r_prev = NoRender

\* A fresh process, or one whose first lines, all of device A without a
\* reading and without a "time" field, arrived at StartTime.
Init ==
    /\ now = StartTime
    /\ status = "running"
    /\ log = <<>>
    /\ n \in StartCounts
    /\ last = IF n = 0 THEN EmptyDict ELSE Put(EmptyDict, IdA, StartTime)
    /\ export = _EXPORT_TIMESTAMPS
    /\ RenderIdle
    /\ g_appended = {}
    /\ c_calls = 0
    /\ c_at = -1
    /\ c_pre = <<>>
    /\ c_once = <<>>
    /\ l_read = 0
    /\ g_offered = {}
    /\ g_seen = IF n = 0 THEN <<>> ELSE << <<IdA, StartTime>> >>
    /\ g_back = FALSE
    /\ r_prev = NoRender
    /\ EventIdle
    /\ SyslogIdle
    /\ HassIdle
    /\ MqttIdle

Next ==
    \/ \E line \in Lines : Loop(line) /\ UNCHANGED <<g_offered, g_seen>>
    \/ Eof
    \/ Tick
    \/ MetricsBegin
    \/ MetricsIter
    \/ MetricsNext
    \/ MetricsReturn /\ UNCHANGED r_prev
    \/ handle_error

Spec == Init /\ [][Next]_vars

\* The loop thread while no request arrives, on a host whose clock may be set
\* back.
LoopNext ==
    \/ \E line \in Lines : Loop(line) /\ UNCHANGED <<g_offered, g_seen>>
    \/ Eof
    \/ Tick
    \/ ClockBack

SpecLoop == Init /\ [][LoopNext]_vars

\* A fresh process answering requests, with the history of offered entries
\* kept.
BurstInit == Init /\ n = 0

BurstNext ==
    \/ \E line \in Lines : Loop(line) /\ Offers(line) /\ UNCHANGED g_seen
    \/ Tick
    \/ MetricsBegin
    \/ MetricsIter
    \/ MetricsNext
    \/ MetricsReturn /\ UNCHANGED r_prev

SpecBurst == BurstInit /\ [][BurstNext]_vars

---------------------------------------------------------------------------
(* clean_log() on its own: called, any number of times, on any log of up   *)
(* to MaxCleanLen entries at any clock reading.  Every such log can be     *)
(* built by loop(): a line carries its own "time", and an identity's second *)
(* line is retained whenever it is stamped less than _MIN_REPEAT_SECS      *)
(* after the first.                                                        *)

MaxCleanLen == 3

CleanTimes == {0} \cup Instants

CleanEntries == {Entry(t, IdA, "temperature_C", PyFloat(Temp[2])) : t \in CleanTimes}

CleanLogs == UNION {[1..k -> CleanEntries] : k \in 0..MaxCleanLen}

CleanInit ==
    /\ now \in Instants
    /\ status = "running"
    /\ log \in CleanLogs
    /\ n = 0
    /\ last = EmptyDict
    /\ export = _EXPORT_TIMESTAMPS
    /\ RenderIdle
    /\ g_appended = Range(log)
    /\ c_calls = 0
    /\ c_at = -1
    /\ c_pre = <<>>
    /\ c_once = <<>>
    /\ l_read = 0
    /\ g_offered = {}
    /\ g_seen = <<>>
    /\ g_back = FALSE
    /\ r_prev = NoRender
    /\ EventIdle
    /\ SyslogIdle
    /\ HassIdle
    /\ MqttIdle

\* self.clean_log()
CleanCall ==
    /\ status = "running"
    /\ log' = clean_log(log, now)
    /\ CleanNoted(log, TRUE)
    /\ r_alias' = IF Detaches(log) THEN FALSE ELSE r_alias
    /\ r_snap' = IF Detaches(log) THEN log ELSE r_snap
    /\ UNCHANGED <<g_seen, extVars, now, status, last, n, export, g_back, r_prev, r_pc, r_now,
                   r_len, r_idx, r_seen, r_ret, r_known, r_began, r_offered, g_appended,
                   g_offered, l_read>>

CleanNext ==
    \/ CleanCall
    \/ Tick

SpecClean == CleanInit /\ [][CleanNext]_vars

---------------------------------------------------------------------------
(* metrics() on its own: requests answered one after the other, while time *)
(* passes, on any log of up to MaxRenderLen entries.  Every such log can   *)
(* be built by loop(): a line carries its own "time" and any of the        *)
(* numeric fields, and an event of an identity seen before is retained     *)
(* whenever it is stamped less than _MIN_REPEAT_SECS after the one before. *)

MaxRenderLen == 2

\* Timestamps of the entries: the epoch and the first three clock readings.
RenderStamps == {0} \cup {Instant(j) : j \in {1, 2, 3}}

\* An identity and one numeric field of a line of its device.
RenderFields == {<<IdA, Temp>>, <<IdB, Temp>>, <<IdB, Hum>>}

RenderEntries ==
    {Entry(t, f[1], f[2][1], PyFloat(f[2][2])) : t \in RenderStamps, f \in RenderFields}

RenderLogs == UNION {[1..k -> RenderEntries] : k \in 0..MaxRenderLen}

\* last after the events of lst: each identity to the timestamp of its last
\* entry.
LastOf(lst) ==
    [id \in {lst[j].id : j \in 1..Len(lst)} |->
        lst[CHOOSE j \in 1..Len(lst) :
                /\ lst[j].id = id
                /\ \A q \in (j + 1)..Len(lst) : lst[q].id # id].ts]

RenderInit ==
    /\ now \in Instants
    /\ status = "running"
    /\ log \in RenderLogs
    /\ n = 0
    /\ last = LastOf(log)
    /\ export = _EXPORT_TIMESTAMPS
    /\ RenderIdle
    /\ g_appended = Range(log)
    /\ c_calls = 0
    /\ c_at = -1
    /\ c_pre = <<>>
    /\ c_once = <<>>
    /\ l_read = 0
    /\ g_offered = Range(log)
    /\ g_seen = <<>>
    /\ g_back = FALSE
    /\ r_prev = NoRender
    /\ EventIdle
    /\ SyslogIdle
    /\ HassIdle
    /\ MqttIdle

\* The history of the request answered before, kept as a request ends.
Keeps == r_prev' = [t |-> r_now, list |-> SubSeq(Walked, 1, r_len), ret |-> r_ret]

RenderNext ==
    \/ MetricsBegin
    \/ MetricsIter
    \/ MetricsNext
    \/ MetricsReturn /\ Keeps
    \/ Tick

SpecRender == RenderInit /\ [][RenderNext]_vars

---------------------------------------------------------------------------
(* Properties of clean_log(), checked under SpecClean.                     *)

NonDecreasing(lst) == \A j \in 1..(Len(lst) - 1) : lst[j].ts <= lst[j + 1].ts

RECURSIVE DropOld(_, _)
\* lst without its longest prefix of entries older than horizon h.
DropOld(lst, h) ==
    IF lst = <<>> \/ lst[1].ts >= h THEN lst ELSE DropOld(Tail(lst), h)

\* after is before without a prefix, and every entry of that prefix is older
\* than horizon h.
OnlyOldRemoved(before, after, h) ==
    \E k \in 0..Len(before) :
        /\ after = SubSeq(before, k + 1, Len(before))
        /\ \A j \in 1..k : before[j].ts < h

\* C8, on logs in timestamp order: a clean_log() call at time `now` leaves the
\* log without exactly its longest prefix of entries older than
\* now - _MAX_AGE_SECS; so the first entry left is not older than that, and
\* nothing is left when every entry is.
Cex_C8 ==
    (c_calls >= 1 /\ NonDecreasing(c_pre))
        => c_once = DropOld(c_pre, c_at - Secs(_MAX_AGE_SECS))

\* C9 as stated: no clean_log() call removes an entry whose timestamp is at or
\* after now - _MAX_AGE_SECS.
Cex_C9 ==
    c_calls >= 1 => OnlyOldRemoved(c_pre, c_once, c_at - Secs(_MAX_AGE_SECS))

\* C9 as amended: a clean_log() call that does not find the first entry more
\* than 60 s newer than the last one removes only a prefix of the log, and
\* every entry it removes is older than now - _MAX_AGE_SECS.
Thm_C9 ==
    (c_calls >= 1 /\ c_pre # <<>> /\ ~WrongWay(c_pre))
        => OnlyOldRemoved(c_pre, c_once, c_at - Secs(_MAX_AGE_SECS))

\* A call removed entries and kept one stamped exactly now - _MAX_AGE_SECS.
Wit_C9 ==
    /\ c_calls >= 1
    /\ c_pre # <<>>
    /\ ~WrongWay(c_pre)
    /\ c_once # <<>>
    /\ Len(c_once) < Len(c_pre)
    /\ c_once[1].ts = c_at - Secs(_MAX_AGE_SECS)

\* C10 as stated: for every log, a second clean_log() call at the same time
\* leaves the log as the first call left it.
Cex_C10 == c_calls >= 2 => log = c_once

\* C10 as amended: for every log whose timestamps are non-decreasing, a second
\* clean_log() call at the same time leaves the log as the first call left it.
Thm_C10 == (c_calls >= 2 /\ NonDecreasing(c_pre)) => log = c_once

\* Two calls in succession on an ordered log, the first of which removed
\* entries and kept others.
Wit_C10 ==
    /\ c_calls >= 2
    /\ NonDecreasing(c_pre)
    /\ c_once # <<>>
    /\ Len(c_once) < Len(c_pre)

---------------------------------------------------------------------------
(* Properties of the renderer and of the two threads together, checked     *)
(* under Spec, and properties of the loop, checked under SpecLoop.         *)

\* The lines metrics() has put in ret so far.
EmittedLines == UNION {Range(r_ret[j][2]) : j \in 1..Len(r_ret)}

\* The lines in the group of variable var.
GroupLines(var) ==
    UNION {Range(r_ret[j][2]) : j \in {i \in 1..Len(r_ret) : r_ret[i][1] = var}}

\* Every identity field is there.
Complete(id) == \A j \in 1..Len(id) : id[j] # None

\* What the walk of metrics() iterates: the list as reversed() found it.
WalkList == SubSeq(Walked, 1, r_len)

\* C1 as stated: a render at time t' includes a line of every event with a
\* complete identity that the loop had taken in when the render read the log
\* and whose timestamp t has t <= t' < t + max_age.
Cex_C1 ==
    r_pc = "join" =>
        \A id \in DOMAIN r_known :
            (/\ Complete(id)
             /\ r_known[id] <= r_now
             /\ r_now < r_known[id] + Secs(_MAX_AGE_SECS))
            => \E l \in EmittedLines :
                   l.tags = IdTags(id, 1) /\ l.ms = Millis(r_known[id])

\* C1 as amended: a finished render at time t' includes the line of every
\* entry e of the log it walked (the entries of the retained events) with
\* t' - e.ts <= max_age, provided that no entry from e to the end of the log
\* is older than max_age and that either t' - e.ts <= backlog or no entry after
\* e of e's identity has a newer timestamp.
Thm_C1 ==
    r_pc = "join" =>
        \A p \in 1..r_len :
            LET e == WalkList[p]
            IN  (/\ \A q \in p..r_len : ~(r_now - WalkList[q].ts > Secs(_MAX_AGE_SECS))
                 /\ \/ r_now - e.ts <= Secs(_BACKLOG_SECS)
                    \/ \A q \in (p + 1)..r_len :
                          WalkList[q].id = e.id => WalkList[q].ts <= e.ts)
                => FormatLine(e, export) \in GroupLines(e.var)

\* A finished render shows an event of a complete identity that is older than
\* the backlog window, both of its entries, and it walked an entry it left out.
Wit_C1 ==
    /\ r_pc = "join"
    /\ \E p \in 1..r_len, q \in 1..r_len :
          /\ p # q
          /\ WalkList[p].id = IdB
          /\ WalkList[q].id = IdB
          /\ WalkList[p].var # WalkList[q].var
          /\ r_now - WalkList[p].ts > Secs(_BACKLOG_SECS)
          /\ FormatLine(WalkList[p], export) \in GroupLines(WalkList[p].var)
          /\ FormatLine(WalkList[q], export) \in GroupLines(WalkList[q].var)
    /\ \E p \in 1..r_len : FormatLine(WalkList[p], export) \notin EmittedLines

\* C2 as stated: every line a render at time t' shows is of an entry with
\* t' < ts + max_age, so an entry exactly max_age old is not shown.
Cex_C2 ==
    \A l \in EmittedLines : Millis(r_now) - l.ms < _MAX_AGE_SECS * 1000

\* C2 as amended: every line a render at time t' shows is of an entry with
\* t' <= ts + max_age: no entry older than max_age is shown, one that is
\* exactly max_age old still is.
Thm_C2 ==
    \A l \in EmittedLines : Millis(r_now) - l.ms <= _MAX_AGE_SECS * 1000

\* A finished render shows an entry exactly max_age old and stopped at an
\* older one.
Wit_C2 ==
    /\ r_pc = "join"
    /\ \E l \in EmittedLines : Millis(r_now) - l.ms = _MAX_AGE_SECS * 1000
    /\ r_idx > 0
    /\ r_now - WalkList[r_idx].ts > Secs(_MAX_AGE_SECS)

\* The step takes line through the body of the loop, past decoding (only such
\* a step counts the line in n).
Ingests(line) == n' = n + 1 /\ line.kind = "dict" /\ TimeOk(line.pkt) /\ Loop(line)

\* self.log after a pass of the loop that appends new.
LogAfter(new) ==
    IF CleanDue(n + 1) THEN clean_log(log \o new, now) ELSE log \o new

\* C3 as stated: a line whose identity has no entry in last is retained, each
\* of its numeric fields appended to the log, and last holds its timestamp.
Cex_C3 ==
    [][\A line \in Lines :
          (Ingests(line) /\ LineId(line) \notin DOMAIN last)
          => /\ last'[LineId(line)] = LineTs(line)
             /\ log' = LogAfter(NumericEntries(LineTs(line), LineId(line),
                                               LineRest(line)))]_vars

\* C3 as amended: a line whose identity has no entry in last sets last to its
\* timestamp, and it is retained if and only if that timestamp is less than
\* _MIN_REPEAT_SECS (after the epoch).
Thm_C3 ==
    [][\A line \in Lines :
          (Ingests(line) /\ LineId(line) \notin DOMAIN last)
          => /\ last'[LineId(line)] = LineTs(line)
             /\ log' = LogAfter(IF LineTs(line) < Secs(_MIN_REPEAT_SECS)
                                THEN NumericEntries(LineTs(line), LineId(line),
                                                    LineRest(line))
                                ELSE <<>>)]_vars

\* The first line of a run was of device B, stamped by the clock, and nothing
\* of it is in the log.
Wit_C3 ==
    /\ n = 1
    /\ DOMAIN last = {IdB}
    /\ last[IdB] >= Secs(_MIN_REPEAT_SECS)
    /\ log = <<>>
    /\ g_appended = {}

\* C4: a line stamped less than _MIN_REPEAT_SECS after the entry of its
\* identity in last is retained: each of its numeric fields is appended.
Thm_C4 ==
    [][\A line \in Lines :
          (/\ Ingests(line)
           /\ LineId(line) \in DOMAIN last
           /\ LineTs(line) - last[LineId(line)] < Secs(_MIN_REPEAT_SECS))
          => log' = LogAfter(NumericEntries(LineTs(line), LineId(line),
                                            LineRest(line)))]_vars

\* The second line of a run was retained, so its identity was that of the
\* first: both entries of a line of device B stamped by the clock.
Wit_C4 ==
    /\ n = 2
    /\ Len(log) = 2
    /\ \A j \in 1..2 : log[j].id = IdB /\ log[j].ts >= Secs(_MIN_REPEAT_SECS)

\* C5: whatever a line holds, the loop does not end because of it.
Cex_C5 == status # "exception"

\* C6: every line a render has emitted is the line of a whole entry that the
\* loop appended to the log.
Thm_C6 ==
    \A l \in EmittedLines : \E e \in g_appended : l = FormatLine(e, export)

\* A render that has not ended its walk has emitted lines from a list that
\* clean_log() has since replaced, and the loop has appended to the new one.
Wit_C6 ==
    /\ r_pc = "walk"
    /\ EmittedLines # {}
    /\ ~r_alias
    /\ log # <<>>
    /\ log # r_snap

\* C7 as stated: a transport error leaves the process running, the loop and
\* later requests with it.
Cex_C7 == status # "os_exit"

\* C7 as amended: a transport error ends the whole process: the log, last and
\* n are as they were, and no step follows, neither of the loop nor of a
\* later request.
Thm_C7 ==
    [][/\ status # "os_exit"
       /\ handle_error => /\ status' = "os_exit"
                          /\ log' = log
                          /\ last' = last
                          /\ n' = n]_vars

\* The process has ended on a transport error, with entries in the log.
Wit_C7 == status = "os_exit" /\ log # <<>>

---------------------------------------------------------------------------
(* Properties of the loop when the clock may be set back, checked under    *)
(* SpecLoop.                                                               *)

\* The latest timestamp among the entries of a non-empty list.
NewestTs(lst) ==
    CHOOSE t \in {lst[j].ts : j \in 1..Len(lst)} :
        \A j \in 1..Len(lst) : lst[j].ts <= t

\* C11 as stated: a clean_log() call at a time more than 60 s before the
\* newest timestamp in the log leaves the log empty.
Cex_C11 ==
    (/\ c_calls >= 1
     /\ c_pre # <<>>
     /\ c_at < NewestTs(c_pre) - Secs(WRONG_WAY_SECS))
    => c_once = <<>>

\* C11 as amended: a pass of the loop whose clean_log() call finds the first
\* entry of the log more than 60 s newer than the last one leaves the log
\* empty, and the next pass after such a call that appends leaves a log of
\* its own new entries only.
Thm_C11 ==
    [][\A line \in Lines :
          Ingests(line) =>
              LET full == Extend(log, LineNew(line))
              IN  /\ (CleanDue(n + 1) /\ full # <<>> /\ WrongWay(full))
                        => log' = <<>>
                  /\ (/\ ~CleanDue(n + 1)
                      /\ c_calls >= 1
                      /\ c_pre # <<>>
                      /\ WrongWay(c_pre))
                        => log' = LineNew(line)]_vars

\* The clock was set back, the clean_log() call of the line after it dropped
\* the table (two entries, the first more than 60 s newer than the second),
\* and the line after that started a new log.
Wit_C11 ==
    /\ g_back
    /\ n % _LOG_CLEAN_INTERVAL = 1
    /\ log # <<>>
    /\ \E a \in g_appended, b \in g_appended :
          /\ a.ts - b.ts > Secs(WRONG_WAY_SECS)
          /\ a \notin Range(log)
          /\ b \notin Range(log)

\* C12: as long as the wall clock has not been set back, the log is in
\* timestamp order: no entry is stamped earlier than the entry before it.
Cex_C12 == ~g_back => NonDecreasing(log)

\* C19 as stated: a pass of the loop for an event that is not retained
\* leaves last unchanged.
Cex_C19 ==
    [][\A line \in Lines :
          (Ingests(line) /\ ~Retained(Ago(last, LineId(line), LineTs(line))))
          => last' = last]_vars

\* C19 as amended: every pass of the loop for a decoded event, retained or
\* not, sets the entry of its identity in last to its timestamp and leaves
\* the other entries alone: last maps each identity to the timestamp of the
\* event most recently received from it.
Thm_C19 ==
    [][\A line \in Lines :
          Ingests(line)
          => /\ DOMAIN last' = DOMAIN last \cup {LineId(line)}
             /\ last'[LineId(line)] = LineTs(line)
             /\ \A id \in DOMAIN last : id # LineId(line) => last'[id] = last[id]]_vars

\* The entry of device A in last is newer than every entry appended for it:
\* the event received last from it, after one stamped at the epoch, was not
\* retained and last holds its timestamp.
Wit_C19 ==
    /\ IdA \in DOMAIN last
    /\ \E e \in g_appended : e.id = IdA /\ e.ts = 0
    /\ \A e \in g_appended : e.id = IdA => e.ts < last[IdA]
    /\ last[IdA] = now

\* C20: a pass of the loop for a line that json.loads rejects, or that is
\* not an object, leaves the log and last as they were, and the loop goes on:
\* the process is running and the stream is one line further.
Thm_C20 ==
    [][\A line \in Lines :
          (line.kind # "dict" /\ Loop(line))
          => /\ log' = log
             /\ last' = last
             /\ n' = n
             /\ status' = "running"
             /\ l_read' = l_read + 1]_vars

\* Lines have been skipped, with entries in the log, and the loop is running:
\* of the lines taken from the stream, one got to the end of the loop body.
Wit_C20 ==
    /\ status = "running"
    /\ log # <<>>
    /\ n = _LOG_CLEAN_INTERVAL - Lead + 1
    /\ l_read > 1

---------------------------------------------------------------------------
(* Further properties of the renderer beside the loop, checked under Spec. *)

\* C13: every line a render has emitted is the line of an entry of the list
\* it walks that is not older than _MAX_AGE_SECS and that has no entry older
\* than _MAX_AGE_SECS after it: entries past the age limit are left out while
\* they are still in the log, and nothing is emitted from beyond the first of
\* them that the walk, newest to oldest, meets.
Thm_C13 ==
    r_pc \in {"walk", "join"} =>
        \A l \in EmittedLines :
            \E p \in 1..r_len :
                /\ l = FormatLine(WalkList[p], export)
                /\ \A q \in p..r_len : ~TooOld(r_now, WalkList[q])

\* A render has ended its walk at an entry older than _MAX_AGE_SECS that is
\* still in the log, after emitting lines.
Wit_C13 ==
    /\ r_pc = "join"
    /\ r_idx > 0
    /\ r_alias
    /\ TooOld(r_now, log[r_idx])
    /\ EmittedLines # {}

\* C17: no step of a request changes the log or last: whatever the
\* interleaving, they are what the steps of the loop made them.
Thm_C17 ==
    [][(MetricsBegin \/ MetricsIter \/ MetricsNext \/ MetricsReturn)
          => (log' = log /\ last' = last)]_vars

\* A render has ended its walk with lines emitted while the loop, in between
\* its steps, appended to the list it walked.
Wit_C17 ==
    /\ r_pc = "join"
    /\ r_alias
    /\ r_len >= 1
    /\ Len(log) > r_len
    /\ EmittedLines # {}

---------------------------------------------------------------------------
(* Properties of a fresh process and its renders, checked under SpecBurst. *)

\* How many items of seq are x.
Count(seq, x) == Cardinality({j \in 1..Len(seq) : seq[j] = x})

\* The lines in the group of variable var, in the order of the response.
GroupSeq(var) ==
    IF \E j \in 1..Len(r_ret) : r_ret[j][1] = var
    THEN r_ret[CHOOSE j \in 1..Len(r_ret) : r_ret[j][1] = var][2]
    ELSE <<>>

\* t' - ts is within the backlog window.
InBacklog(t, ts) == ts <= t /\ t - ts <= Secs(_BACKLOG_SECS)

---------------------------------------------------------------------------
(* Properties of metrics() as a function of the log and the time, checked  *)
(* under SpecRender.                                                       *)

\* The identities that have entries in lst.
IdsOf(lst) == {lst[j].id : j \in 1..Len(lst)}

\* The newest timestamp among the entries of identity id in lst.
NewestOf(lst, id) ==
    CHOOSE t \in {lst[j].ts : j \in {i \in 1..Len(lst) : lst[i].id = id}} :
        \A j \in 1..Len(lst) : lst[j].id = id => lst[j].ts <= t

\* How many lines of the response, over all groups, are of identity id and
\* carry timestamp ts.
LinesAt(id, ts) ==
    Cardinality({jk \in (1..Len(r_ret)) \X (1..MaxRenderLen + MaxLog) :
                    /\ jk[2] <= Len(r_ret[jk[1]][2])
                    /\ r_ret[jk[1]][2][jk[2]].tags = IdTags(id, 1)
                    /\ r_ret[jk[1]][2][jk[2]].ms = Millis(ts)})

\* How many entries of lst are of identity id and stamped ts.
EntriesAt(lst, id, ts) ==
    Cardinality({j \in 1..Len(lst) : lst[j].id = id /\ lst[j].ts = ts})

\* C15 as stated: in a finished render, each identity with an entry of the
\* walked log within max_age has exactly one line that carries its most
\* recent timestamp.
Cex_C15 ==
    r_pc = "join" =>
        \A id \in IdsOf(WalkList) :
            (\E j \in 1..r_len : WalkList[j].id = id /\ ~TooOld(r_now, WalkList[j]))
            => LinesAt(id, NewestOf(WalkList, id)) = 1

\* C15 as amended: in a finished render of a log in timestamp order, each
\* identity with an entry within max_age has one line for every entry that
\* carries its most recent timestamp (one per numeric field of its latest
\* event: at least one), also when that timestamp is outside the backlog
\* window.
Thm_C15 ==
    (r_pc = "join" /\ NonDecreasing(WalkList)) =>
        \A id \in IdsOf(WalkList) :
            (\E j \in 1..r_len : WalkList[j].id = id /\ ~TooOld(r_now, WalkList[j]))
            => /\ LinesAt(id, NewestOf(WalkList, id))
                     = EntriesAt(WalkList, id, NewestOf(WalkList, id))
               /\ LinesAt(id, NewestOf(WalkList, id)) >= 1

\* A finished render of an ordered log shows two lines of the latest event of
\* an identity, temperature and humidity, stamped outside the backlog window.
Wit_C15 ==
    /\ r_pc = "join"
    /\ NonDecreasing(WalkList)
    /\ r_len = 2
    /\ IdsOf(WalkList) = {IdB}
    /\ r_now - NewestOf(WalkList, IdB) > Secs(_BACKLOG_SECS)
    /\ LinesAt(IdB, NewestOf(WalkList, IdB)) = 2
    /\ Len(r_ret) = 2

\* An entry e of lst is to be shown at time t: it is not older than max_age,
\* and it is within the backlog window or carries the newest timestamp of
\* its identity.
Qualifies(lst, t, e) ==
    /\ t - e.ts <= Secs(_MAX_AGE_SECS)
    /\ \/ t - e.ts <= Secs(_BACKLOG_SECS)
       \/ e.ts = NewestOf(lst, e.id)

RECURSIVE Expected(_, _, _, _)
\* The lines of the entries among the first k of lst that are of variable var
\* and to be shown at time t, the last entry first.
Expected(lst, var, t, k) ==
    IF k = 0 THEN <<>>
    ELSE (IF lst[k].var = var /\ Qualifies(lst, t, lst[k])
          THEN <<FormatLine(lst[k], TRUE)>> ELSE <<>>)
         \o Expected(lst, var, t, k - 1)

\* The names of the variables that have entries in lst or a group in ret.
VarsOf(lst) ==
    {lst[j].var : j \in 1..Len(lst)} \cup {r_ret[j][1] : j \in 1..Len(r_ret)}

\* C16: with timestamps exported, a finished render of a log in timestamp
\* order has, in the group of each variable, exactly the lines of the
\* entries e of that variable with age(e) <= max_age and (age(e) <= backlog
\* or e.ts the newest timestamp of e's identity), one line per entry, and no
\* group of any other variable.
Thm_C16 ==
    (r_pc = "join" /\ export /\ NonDecreasing(WalkList)) =>
        \A var \in VarsOf(WalkList) :
            GroupSeq(var) = Expected(WalkList, var, r_now, r_len)

\* A finished render of an ordered log of two entries of one identity, both
\* within max_age and outside the backlog window: the newer one is shown,
\* the older one is not.
Wit_C16 ==
    /\ r_pc = "join"
    /\ export
    /\ r_len = 2
    /\ WalkList[1].id = WalkList[2].id
    /\ WalkList[1].ts < WalkList[2].ts
    /\ r_now - WalkList[2].ts > Secs(_BACKLOG_SECS)
    /\ ~TooOld(r_now, WalkList[1])
    /\ FormatLine(WalkList[2], export) \in EmittedLines
    /\ FormatLine(WalkList[1], export) \notin EmittedLines

\* The groups of a response, whatever their order.
Groups(ret) == {ret[j] : j \in 1..Len(ret)}

\* C18: a finished render of the same log content at the same time as the
\* render before it has the same groups, each with the same lines in the
\* same order.
Thm_C18 ==
    (/\ r_pc = "join"
     /\ r_prev # NoRender
     /\ r_prev.t = r_now
     /\ r_prev.list = WalkList)
    => Groups(r_ret) = Groups(r_prev.ret)

\* Two renders of one log at one time have ended, the second while the clock
\* went on, both with two groups of lines.
Wit_C18 ==
    /\ r_pc = "join"
    /\ r_prev # NoRender
    /\ r_prev.t = r_now
    /\ r_prev.list = WalkList
    /\ now > r_now
    /\ Len(r_ret) = 2
    /\ Len(r_prev.ret) = 2

---------------------------------------------------------------------------
(* The fields of a retained event.                                         *)

\* self.log as a pass that appended something left it before clean_log() ran,
\* if it ran.
PassFull == IF CleanDue(n + 1) THEN c_pre' ELSE log'

\* The entries of lst whose variable is var.
EntriesOf(lst, var) == {q \in 1..Len(lst) : lst[q].var = var}

\* C21: a retained event appends, for each field that is neither "time" nor an
\* identity field, exactly one entry (ts, identity, field name, float(value))
\* if float() accepts the value and none if it does not; nothing else is
\* appended, so a field float() rejects costs its siblings nothing.
Thm_C21 ==
    [][\A line \in Lines :
          (/\ Ingests(line)
           /\ Retained(Ago(last, LineId(line), LineTs(line)))
           /\ \E p \in Range(LineRest(line)) : FloatOk(p[2]))
          => LET rest  == LineRest(line)
                 full  == PassFull
                 added == SubSeq(full, Len(log) + 1, Len(full))
             IN  /\ Len(full) >= Len(log)
                 /\ SubSeq(full, 1, Len(log)) = log
                 /\ \A p \in Range(rest) :
                       IF FloatOk(p[2])
                       THEN /\ Cardinality(EntriesOf(added, p[1])) = 1
                            /\ \E q \in EntriesOf(added, p[1]) :
                                  added[q] = Entry(LineTs(line), LineId(line),
                                                   p[1], PyFloat(p[2]))
                       ELSE EntriesOf(added, p[1]) = {}
                 /\ \A q \in 1..Len(added) :
                       \E p \in Range(rest) : p[1] = added[q].var]_vars

\* A retained line of device B left an entry for the field before and for the
\* field after its "status" text, and none for "status".
Wit_C21 ==
    /\ Len(log) >= 2
    /\ log[Len(log) - 1].id = IdB
    /\ log[Len(log) - 1].var = Temp[1]
    /\ log[Len(log)].id = IdB
    /\ log[Len(log)].var = Hum[1]
    /\ log[Len(log)].ts = log[Len(log) - 1].ts
    /\ \A e \in g_appended : e.var # Stat[1]

---------------------------------------------------------------------------
(* One pass of the loop body on its own: any event of EventPkts, taken at  *)
(* any clock reading of EventClock, for an identity seen less than         *)
(* _MIN_REPEAT_SECS before (so that new is built).                         *)

\* Clock readings explored around StartTime: FineSpan ticks either side.
FineSpan == 3

EventClock == {StartTime + d : d \in -FineSpan..FineSpan}

\* The "time" field of an event: none, a whole second, half a second past
\* it, or a text isoparse rejects.
EventTimes ==
    {<<>>, << <<"time", IsoStr(StartTime)>> >>,
     << <<"time", IsoStr(StartTime + Half)>> >>, << <<"time", JStr("bogus")>> >>}

\* What an event may carry for each identity field, <<>> when it has none.
EventIdValues ==
    << {<<>>, JStr("A"), JStr("None")},
       {<<>>, JStr("t")},
       {<<>>, JStr("s")},
       {<<>>, JInt(1), JStr("x")},
       {<<>>, JInt(7), JStr("2"), JStr("x")} >>

\* The item of identity field j holding v, or nothing.
IdItem(j, v) == IF v = <<>> THEN <<>> ELSE << <<_ID_FIELDS[j][1], v>> >>

EventIds ==
    {IdItem(1, m) \o IdItem(2, t) \o IdItem(3, s) \o IdItem(4, c) \o IdItem(5, i) :
        m \in EventIdValues[1], t \in EventIdValues[2], s \in EventIdValues[3],
        c \in EventIdValues[4], i \in EventIdValues[5]}

EventPkts == {tf \o ids \o <<Temp>> : tf \in EventTimes, ids \in EventIds}

EventInit ==
    /\ now \in EventClock
    /\ status = "running"
    /\ log = <<>>
    /\ n = 0
    /\ last = EmptyDict
    /\ export = _EXPORT_TIMESTAMPS
    /\ RenderIdle
    /\ g_appended = {}
    /\ c_calls = 0
    /\ c_at = -1
    /\ c_pre = <<>>
    /\ c_once = <<>>
    /\ l_read = 0
    /\ g_offered = {}
    /\ g_seen = <<>>
    /\ g_back = FALSE
    /\ r_prev = NoRender
    /\ e_pkt \in EventPkts
    /\ e_pc = "in"
    /\ e_ts = -1
    /\ e_id = <<>>
    /\ e_new = <<>>
    /\ SyslogIdle
    /\ HassIdle
    /\ MqttIdle

\* The body of the loop from isoparse to "new.append", on e_pkt.
EventPass ==
    /\ e_pc = "in"
    /\ IF ~TimeOk(e_pkt)
       THEN \* isoparse raises
            /\ e_pc' = "raised"
            /\ UNCHANGED <<e_ts, e_id, e_new>>
       ELSE LET ts   == EventTs(e_pkt, now)
                id   == grab_id(PopRest(e_pkt, "time"))
                rest == grab_rest(PopRest(e_pkt, "time"))
            IN  /\ e_pc' = "out"
                /\ e_ts' = ts
                /\ e_id' = id
                /\ e_new' = NumericEntries(ts, id, rest)
    /\ UNCHANGED <<now, relayVars, e_pkt, syslogVars, hassVars, mqttVars>>

EventNext == EventPass

SpecEvent == EventInit /\ [][EventNext]_vars

\* The positions in _ID_FIELDS of the identity fields pkt carries.
Present(pkt) == {j \in 1..Len(_ID_FIELDS) : HasKey(pkt, _ID_FIELDS[j][1])}

\* C22 as stated: the identity holds the absent marker for every identity
\* field the event does not carry, and no event that carries other identity
\* fields has the same identity.
Cex_C22 ==
    e_pc = "out"
    => /\ \A j \in 1..Len(_ID_FIELDS) : j \notin Present(e_pkt) => e_id[j] = None
       /\ \A q \in EventPkts :
             Present(q) # Present(e_pkt) => grab_id(q) # e_id

TagNames(l) == [j \in 1..Len(l.tags) |-> l.tags[j][1]]

RECURSIVE PresentNames(_, _)
\* The names of the identity fields pkt carries, in _ID_FIELDS order from j on.
PresentNames(pkt, j) ==
    IF j > Len(_ID_FIELDS) THEN <<>>
    ELSE (IF HasKey(pkt, _ID_FIELDS[j][1]) THEN <<_ID_FIELDS[j][1]>> ELSE <<>>)
         \o PresentNames(pkt, j + 1)

\* C24 as stated: the tags of the line of every entry of the event are those
\* of the identity fields the event carries, in the order model, type,
\* subtype, channel, id, and no others.
Cex_C24 ==
    e_pc = "out"
    => \A e \in Range(e_new) :
          TagNames(FormatLine(e, export)) = PresentNames(e_pkt, 1)

\* C28: an event without "time" is stamped with the clock reading; so is one
\* whose "time" is a whole second s with s - 0.5 < now < s + 1.5; any other
\* event is stamped with its "time".
Thm_C28 ==
    e_pc = "out"
    => IF ~HasKey(e_pkt, "time") THEN e_ts = now
       ELSE LET s == PopValue(e_pkt, "time").i
            IN  IF /\ s % TicksPerSec = 0
                   /\ s - Half < now
                   /\ now < s + TicksPerSec + Half
                THEN e_ts = now
                ELSE e_ts = s

\* An event stamped with a whole second took the reading of the clock, a
\* second later, as its timestamp.
Wit_C28 ==
    /\ e_pc = "out"
    /\ HasKey(e_pkt, "time")
    /\ now = PopValue(e_pkt, "time").i + TicksPerSec
    /\ e_ts = now

\* The names of the identity fields, and "time".
ReservedNames == {_ID_FIELDS[j][1] : j \in 1..Len(_ID_FIELDS)} \cup {"time"}

\* C25: no entry of the log, now or ever, has the name of an identity field
\* or "time" as its variable name.
Thm_C25 == \A e \in Range(log) \cup g_appended : e.var \notin ReservedNames

\* The log holds an entry of an event of device B that carried a "time", a
\* numeric "channel" and an "id" of numeric text.
Wit_C25 ==
    \E e \in Range(log) :
        /\ e.id = IdB
        /\ e.ts = 0
        /\ FloatOk(PopValue(DevB, "channel"))
        /\ FloatOk(PopValue(DevB, "id"))

\* a is what is left of b after some of its first items are removed.
SuffixOf(a, b) == \E k \in 0..Len(b) : a = SubSeq(b, k + 1, Len(b))

\* C26: a step that changes the log is a pass of the loop, and it leaves the
\* log as it was with the entries of the line appended at its end and then,
\* in a pass that calls clean_log(), with some of its first entries removed:
\* no entry is changed, none is moved, and none is removed while an entry
\* before it stays.
Thm_C26 ==
    [][log' # log
       => \E line \in Lines :
             /\ Ingests(line)
             /\ SuffixOf(log', log \o LineNew(line))
             /\ ~CleanDue(n + 1) => log' = log \o LineNew(line)]_vars

\* clean_log() has removed the first entry of a log and kept the entry
\* appended in the same pass.
Wit_C26 ==
    /\ c_calls = 1
    /\ Len(c_pre) = 2
    /\ log = <<c_pre[2]>>
    /\ c_pre[1] # c_pre[2]
    /\ c_pre[2].ts = now

\* The step is one in which clean_log() is called.
CleanRuns == c_calls' >= 1 /\ cleanHist' # cleanHist

\* C27: a pass of the loop on an event that got past decoding (json.loads
\* returned a dict, isoparse took its "time") adds one to n, whether the event
\* is retained or not, and no other step changes n; clean_log() is called in
\* exactly the passes that bring n to a positive multiple of
\* _LOG_CLEAN_INTERVAL.
Thm_C27 ==
    [][/\ \A line \in Lines :
             Loop(line)
             => n' = IF Decodes(line) /\ TimeOk(line.pkt) THEN n + 1 ELSE n
       /\ (\A line \in Lines : ~Loop(line)) => n' = n
       /\ CleanRuns <=> (n' = n + 1 /\ n' > 0 /\ n' % _LOG_CLEAN_INTERVAL = 0)]_vars

\* n has reached _LOG_CLEAN_INTERVAL by two events that were not retained,
\* and clean_log() was called on the empty log.
Wit_C27 ==
    /\ n = _LOG_CLEAN_INTERVAL
    /\ l_read = 2
    /\ g_appended = {}
    /\ c_calls = 1
    /\ c_pre = <<>>

---------------------------------------------------------------------------
(* syslog_reader on its own: one datagram, any of Datagrams, received and  *)
(* split.  A datagram is a sequence of bytes, " " standing for a           *)
(* whitespace byte and any other item for a run of bytes that are not.     *)

\* pkt.split(None, 7): maxsplit
SyslogSplits == 7

\* Most whitespace-delimited fields a datagram of the model holds.
MaxFields == 9

\* Whitespace bytes between two fields.
GapWidths == {1, 2}

FieldNames == <<"f1", "f2", "f3", "f4", "f5", "f6", "f7", "f8", "f9", "f10", "f11">>

Spaces(g) == [j \in 1..g |-> " "]

RECURSIVE Framed(_, _, _)
\* Fields j..k, each after the whitespace gaps gives it.
Framed(gaps, j, k) ==
    IF j > k THEN <<>>
    ELSE Spaces(gaps[j]) \o <<FieldNames[j]>> \o Framed(gaps, j + 1, k)

\* Datagrams of up to MaxFields fields: whitespace or none before the first,
\* whitespace of one of GapWidths between two, and whitespace or none at the
\* end.
Datagrams ==
    UNION {{Spaces(lead) \o Framed([j \in 1..k |-> IF j = 1 THEN 0 ELSE gaps[j]], 1, k)
                \o Spaces(trail) :
                gaps \in [2..k -> GapWidths], lead \in 0..1, trail \in 0..1} :
           k \in 0..MaxFields}

RECURSIVE SkipSpace(_)
\* d from its first byte that is not whitespace.
SkipSpace(d) == IF d # <<>> /\ Head(d) = " " THEN SkipSpace(Tail(d)) ELSE d

RECURSIVE SkipField(_)
\* d from its first whitespace byte.
SkipField(d) == IF d # <<>> /\ Head(d) # " " THEN SkipField(Tail(d)) ELSE d

RECURSIVE Split(_, _)
\* d.split(None, maxsplit): the fields of d, the last one being all that is
\* left, from its first byte that is not whitespace, after maxsplit splits.
Split(d, maxsplit) ==
    LET r == SkipSpace(d)
    IN  IF r = <<>> THEN <<>>
        ELSE IF maxsplit = 0 THEN <<r>>
        ELSE <<SubSeq(r, 1, Len(r) - Len(SkipField(r)))>>
             \o Split(SkipField(r), maxsplit - 1)

\* syslog_yield taking the eighth of nine parts: "bits = pkt.split(None, 8)"
\* with "if len(bits) >= 8: yield str(bits[7], 'utf-8')".
syslog_yieldField(d) ==
    LET bits == Split(d, SyslogSplits + 1)
    IN  IF Len(bits) >= SyslogSplits + 1 THEN <<bits[SyslogSplits + 1]>> ELSE <<>>

\* What one datagram makes syslog_reader yield: bits[7] of bits =
\* pkt.split(None, 7) when there are eight bits, or nothing.
syslog_yield(d) ==
    LET bits == Split(d, SyslogSplits)
    IN  IF Len(bits) = SyslogSplits + 1 THEN <<bits[SyslogSplits + 1]>> ELSE <<>>

SyslogInit ==
    /\ now = StartTime
    /\ status = "running"
    /\ log = <<>>
    /\ n = 0
    /\ last = EmptyDict
    /\ export = _EXPORT_TIMESTAMPS
    /\ RenderIdle
    /\ g_appended = {}
    /\ c_calls = 0
    /\ c_at = -1
    /\ c_pre = <<>>
    /\ c_once = <<>>
    /\ l_read = 0
    /\ g_offered = {}
    /\ g_seen = <<>>
    /\ g_back = FALSE
    /\ r_prev = NoRender
    /\ EventIdle
    /\ s_dgram \in Datagrams
    /\ s_pc = "recv"
    /\ s_out = <<>>
    /\ HassIdle
    /\ MqttIdle

\* From "pkt, _ = sock.recvfrom(4096)" round to recvfrom again.
SyslogSplit ==
    /\ s_pc = "recv"
    /\ s_pc' = "next"
    /\ s_out' = syslog_yield(s_dgram)
    /\ UNCHANGED <<now, relayVars, eventVars, s_dgram, hassVars, mqttVars>>

SyslogNext == SyslogSplit

SpecSyslog == SyslogInit /\ [][SyslogNext]_vars

RECURSIVE AfterFields(_, _)
\* d after its first k whitespace-delimited fields and the whitespace that
\* follows them; <<>> when nothing follows.
AfterFields(d, k) ==
    IF k = 0 THEN SkipSpace(d) ELSE AfterFields(SkipField(SkipSpace(d)), k - 1)

---------------------------------------------------------------------------
(* rtl_433_mqtt_hass: publish_config called, for any of HassPaths, while   *)
(* time passes.                                                            *)

\* args.discovery_interval, in seconds: the default of --interval.
discovery_interval == 600

\* Clock readings explored: the first NumHassInstants of HassOffsets, in
\* ticks after StartTime.  They meet the end of the interval that starts at
\* the first or at the second of them exactly, and miss it by one tick
\* either way.
NumHassInstants == 6

HassOffsets ==
    <<0, 1, Secs(discovery_interval) - 1, Secs(discovery_interval),
      Secs(discovery_interval) + 1, 2 * Secs(discovery_interval),
      2 * Secs(discovery_interval) + 1, 3 * Secs(discovery_interval)>>

HassInstants == {StartTime + HassOffsets[j] : j \in 1..NumHassInstants}

\* The config topics of two entities of one device.
HassPaths ==
    {"homeassistant/sensor/A-7/A-7-T/config", "homeassistant/sensor/A-7/A-7-H/config"}

\* Refuses with "if discovery_timeouts[path] >= now".
RefusesAtTimeout(path) == path \in DOMAIN h_timeouts /\ h_timeouts[path] >= now

\* if path in discovery_timeouts: if discovery_timeouts[path] > now:
\* return False
Refuses(path) == path \in DOMAIN h_timeouts /\ h_timeouts[path] > now

HassInit ==
    /\ now = StartTime
    /\ status = "running"
    /\ log = <<>>
    /\ n = 0
    /\ last = EmptyDict
    /\ export = _EXPORT_TIMESTAMPS
    /\ RenderIdle
    /\ g_appended = {}
    /\ c_calls = 0
    /\ c_at = -1
    /\ c_pre = <<>>
    /\ c_once = <<>>
    /\ l_read = 0
    /\ g_offered = {}
    /\ g_seen = <<>>
    /\ g_back = FALSE
    /\ r_prev = NoRender
    /\ EventIdle
    /\ SyslogIdle
    /\ HassIdle
    /\ MqttIdle

\* publish_config(mqttc, topic, model, object_id, mapping) for the entity
\* whose config topic is path.
publish_config(path) ==
    /\ h_path' = path
    /\ IF Refuses(path)
       THEN /\ h_ret' = FALSE
            /\ UNCHANGED <<h_timeouts, h_pubs>>
       ELSE /\ h_timeouts' = Put(h_timeouts, path, now + Secs(discovery_interval))
            /\ h_pubs' = h_pubs \cup {<<path, now>>}
            /\ h_ret' = TRUE
    /\ UNCHANGED <<now, relayVars, eventVars, syslogVars, mqttVars>>

\* Time passes between two events.
HassTick ==
    /\ \E t \in HassInstants : t > now /\ now' = t
    /\ UNCHANGED <<relayVars, eventVars, syslogVars, hassVars, mqttVars>>

HassNext ==
    \/ \E path \in HassPaths : publish_config(path)
    \/ HassTick

SpecHass == HassInit /\ [][HassNext]_vars

\* A config was published for path less than discovery_interval ago.
PublishedLately(path) ==
    \E p \in h_pubs : p[1] = path /\ now - p[2] < Secs(discovery_interval)

\* C30: a call of publish_config for a path publishes a config and returns
\* True when none was published for the path in the discovery_interval
\* seconds before; otherwise it returns False, publishes nothing and leaves
\* the timeouts as they are.  Two configs of one path are therefore never
\* published less than discovery_interval apart.
Thm_C30 ==
    [][/\ \A path \in HassPaths :
             (h_path' = path /\ publish_config(path))
             => IF PublishedLately(path)
                THEN /\ h_ret' = FALSE
                     /\ h_pubs' = h_pubs
                     /\ h_timeouts' = h_timeouts
                ELSE /\ h_ret' = TRUE
                     /\ h_pubs' = h_pubs \cup {<<path, now>>}
                     /\ \A q \in DOMAIN h_timeouts \ {path} :
                           h_timeouts'[q] = h_timeouts[q]
       /\ \A p, q \in h_pubs' :
             (p[1] = q[1] /\ p[2] < q[2])
             => q[2] - p[2] >= Secs(discovery_interval)]_vars

\* A path's config was published, published again exactly discovery_interval
\* later, and refused one tick after that.
Wit_C30 ==
    \E path \in HassPaths :
        /\ <<path, StartTime>> \in h_pubs
        /\ <<path, StartTime + Secs(discovery_interval)>> \in h_pubs
        /\ now = StartTime + Secs(discovery_interval) + 1
        /\ h_path = path
        /\ h_ret = FALSE

---------------------------------------------------------------------------
(* clean_log() called again and again: the loop keeps taking events, none  *)
(* of which appends an entry (each is the first of its identity for        *)
(* _MIN_REPEAT_SECS, or has no numeric field), and every                   *)
(* _LOG_CLEAN_INTERVAL-th of them calls clean_log().  A call that leaves    *)
(* everything as the call before left it is a stuttering step.             *)

SpecCleanLive ==
    CleanInit /\ [][CleanNext]_vars /\ WF_vars(CleanCall) /\ WF_vars(Tick)

\* e is older than _MAX_AGE_SECS.
Stale(e) == now - e.ts > Secs(_MAX_AGE_SECS)

\* C31: while the loop keeps calling clean_log(), every entry of the log that
\* is older than _MAX_AGE_SECS is removed from the log sooner or later.
Cex_C31 ==
    \A e \in CleanEntries :
        (e \in Range(log) /\ Stale(e)) ~> (e \notin Range(log))

---------------------------------------------------------------------------
(* The repeat gate, against the events themselves rather than against      *)
(* what the loop remembers of them.                                        *)

\* The history of events, kept along a pass of the loop: an event that got
\* past decoding is noted with its identity and timestamp, retained or not.
Notes(line) ==
    g_seen' = IF line.kind = "dict" /\ TimeOk(line.pkt)
              THEN Append(g_seen, <<LineId(line), LineTs(line)>>)
              ELSE g_seen

\* The loop thread while no request arrives, with the history of events kept.
NovelNext ==
    \/ \E line \in Lines : Loop(line) /\ Notes(line) /\ UNCHANGED g_offered
    \/ Eof
    \/ Tick

SpecNovel == Init /\ [][NovelNext]_vars

\* The events of identity id so far, as positions of g_seen.
EventsOf(id) == {j \in 1..Len(g_seen) : g_seen[j][1] = id}

\* The timestamp of the latest event of identity id so far, 0 when there is
\* none.
PrevTs(id) ==
    IF EventsOf(id) = {} THEN 0
    ELSE g_seen[CHOOSE j \in EventsOf(id) : \A k \in EventsOf(id) : k <= j][2]

\* C32: an event appends the entries of its numeric fields if its timestamp
\* minus that of the event of its identity just before it (retained or not; 0
\* when there is none) is less than _MIN_REPEAT_SECS, and appends nothing
\* otherwise.
Thm_C32 ==
    [][\A line \in Lines :
          (Ingests(line) /\ Notes(line))
          => LET full  == PassFull
                 added == SubSeq(full, Len(log) + 1, Len(full))
             IN  /\ SubSeq(full, 1, Len(log)) = log
                 /\ added = IF LineTs(line) - PrevTs(LineId(line))
                                < Secs(_MIN_REPEAT_SECS)
                            THEN LineOffer(line)
                            ELSE <<>>]_vars

\* Two events of one identity in a row: the first appended its entries, the
\* second came exactly _MIN_REPEAT_SECS after it and appended none.
Wit_C32 ==
    \E j \in 1..(Len(g_seen) - 1) :
        /\ g_seen[j + 1][1] = g_seen[j][1]
        /\ g_seen[j + 1][2] - g_seen[j][2] = Secs(_MIN_REPEAT_SECS)
        /\ \E e \in g_appended : e.id = g_seen[j][1] /\ e.ts = g_seen[j][2]
        /\ \A e \in g_appended : e.id = g_seen[j][1] => e.ts # g_seen[j + 1][2]

---------------------------------------------------------------------------
(* metrics() on its own with _EXPORT_TIMESTAMPS = False.                   *)

PlainInit ==
    /\ now \in Instants
    /\ status = "running"
    /\ log \in RenderLogs
    /\ n = 0
    /\ last = LastOf(log)
    /\ export = FALSE
    /\ RenderIdle
    /\ g_appended = Range(log)
    /\ c_calls = 0
    /\ c_at = -1
    /\ c_pre = <<>>
    /\ c_once = <<>>
    /\ l_read = 0
    /\ g_offered = Range(log)
    /\ g_seen = <<>>
    /\ g_back = FALSE
    /\ r_prev = NoRender
    /\ EventIdle
    /\ SyslogIdle
    /\ HassIdle
    /\ MqttIdle

SpecPlain == PlainInit /\ [][RenderNext]_vars

\* The timestamp of the entry of identity id the walk meets first: the last
\* one of that identity in the list.
FirstMet(id) ==
    WalkList[CHOOSE q \in 1..r_len :
                 /\ WalkList[q].id = id
                 /\ \A p \in (q + 1)..r_len : WalkList[p].id # id].ts

\* C33: with timestamp export disabled, a pass of the walk over an entry adds
\* that entry's line (without timestamp) if the entry's timestamp is that of
\* the entry of its identity the walk met first, and adds nothing otherwise,
\* whether the entry is within the backlog window or not.
Thm_C33 ==
    [][(/\ ~export
        /\ r_pc = "walk"
        /\ r_idx > 0
        /\ r_idx' = r_idx - 1)
       => LET e == WalkList[r_idx]
          IN  r_ret' = IF e.ts = FirstMet(e.id)
                       THEN AddLine(r_ret, e.var, FormatLine(e, FALSE))
                       ELSE r_ret]_vars

\* A finished render without timestamps walked two entries of one identity
\* and one field, both within the backlog window, the older one first in the
\* log, and shows one line.
Wit_C33 ==
    /\ ~export
    /\ r_pc = "join"
    /\ r_idx = 0
    /\ r_len = 2
    /\ WalkList[1].id = WalkList[2].id
    /\ WalkList[1].var = WalkList[2].var
    /\ WalkList[1].ts < WalkList[2].ts
    /\ r_now - WalkList[1].ts <= Secs(_BACKLOG_SECS)
    /\ Len(Joined(r_ret)) = 1

---------------------------------------------------------------------------
(* A render against the list it began with, checked under Spec.            *)

RECURSIVE WalkFrom(_, _, _, _, _, _)
\* ret after "for ts, id, var, val in reversed(...)" has gone on from item k
\* of lst with seen and ret, at time t, undisturbed.
WalkFrom(lst, t, exp, k, seen, ret) ==
    IF k = 0 \/ TooOld(t, lst[k]) THEN ret
    ELSE IF Skipped(t, lst[k], seen) THEN WalkFrom(lst, t, exp, k - 1, seen, ret)
    ELSE WalkFrom(lst, t, exp, k - 1, Seen(seen, lst[k]),
                  IF Emits(lst[k], Seen(seen, lst[k]), exp)
                  THEN AddLine(ret, lst[k].var, FormatLine(lst[k], exp))
                  ELSE ret)

\* ret of metrics() run in one go on the list lst at time t.
metrics(lst, t, exp) == WalkFrom(lst, t, exp, Len(lst), EmptyDict, <<>>)

\* C34: whatever the loop does to self.log while a request is answered
\* (appends, compaction, the clear after a clock jump), the list the request
\* walks stays what self.log was when its walk began, and what the finished
\* request has to return is what metrics() run in one go on that list
\* returns.
Thm_C34 ==
    r_pc \in {"walk", "join"} =>
        /\ WalkList = r_began
        /\ r_pc = "join" => r_ret = metrics(r_began, r_now, export)

\* A finished render has lines to return, and while it walked the loop
\* appended to self.log and clean_log() replaced it.
Wit_C34 ==
    /\ r_pc = "join"
    /\ r_ret # <<>>
    /\ ~r_alias
    /\ Len(r_snap) > r_len
    /\ log # r_began

---------------------------------------------------------------------------
(* The entries of one event in the list a render walks, checked under      *)
(* Spec.                                                                   *)

\* The entries appended so far that came from the event of e: an event's
\* entries share its timestamp and identity.
Siblings(e) == {x \in g_appended : x.id = e.id /\ x.ts = e.ts}

\* C35: the list a render walks holds, of every event, all the entries the
\* event appended or none of them.
Cex_C35 ==
    r_pc \in {"walk", "join"} =>
        \A e \in Range(r_began) : Siblings(e) \subseteq Range(r_began)

---------------------------------------------------------------------------
(* rtl_433_mqtt_relay: class dedup.  A report is a dict, here a function   *)
(* from its keys to its values; is_interesting is called for any of        *)
(* DedupReports while time passes.                                         *)

\* self.duration, in seconds
duration == 5

\* self.boring_keys
boring_keys == {"time", "freq", "freq1", "freq2", "rssi", "snr", "noise", "raw_msg"}

\* Clock readings explored: the first NumDedupInstants of DedupOffsets, in
\* ticks after StartTime.  They meet the end of the duration that starts at
\* the first of them exactly, and miss it by one tick either way.
NumDedupInstants == 5

DedupOffsets ==
    <<0, 1, Secs(duration), Secs(duration) + 1, Secs(duration) - 1,
      2 * Secs(duration), 2 * Secs(duration) + 1>>

DedupInstants == {StartTime + DedupOffsets[j] : j \in 1..NumDedupInstants}

\* What a report may hold under each key of the model: two readings, two
\* reception times, one battery state.
ReportValues ==
    [temperature_C |-> {"20", "21"}, time |-> {"t1", "t2"}, battery_ok |-> {"1"}]

\* The reports: any of the keys, a boring one among them, each with any of
\* its values.
DedupReports ==
    UNION {{j \in [ks -> {"20", "21", "t1", "t2", "1"}] :
                \A k \in ks : j[k] \in ReportValues[k]} :
           ks \in SUBSET {"temperature_C", "time", "battery_ok"}}

\* equiv(j1, j2)
equiv(j1, j2) ==
    IF \E k \in DOMAIN j1 \ boring_keys : k \notin DOMAIN j2 \/ j1[k] # j2[k]
    THEN FALSE
    ELSE IF Cardinality(DOMAIN j1) # Cardinality(DOMAIN j2) THEN FALSE
    ELSE TRUE

\* Expired with "if n - self.last_now >= self.duration".
ExpiredAt(t, last_now) == t - last_now >= Secs(duration)

\* if n - self.last_now > self.duration:
Expired(t, last_now) == t - last_now > Secs(duration)

\* send_store(report, n)
send_store(report, t) ==
    /\ d_last' = <<[report |-> report, n |-> t]>>
    /\ d_ret' = TRUE

\* is_interesting(report), with n = time.time()
is_interesting(report) ==
    /\ d_report' = report
    /\ IF d_last = <<>> THEN send_store(report, now)
       ELSE IF Expired(now, d_last[1].n) THEN send_store(report, now)
       ELSE IF ~equiv(d_last[1].report, report) THEN send_store(report, now)
       ELSE /\ d_ret' = FALSE
            /\ UNCHANGED d_last
    /\ UNCHANGED <<now, relayVars, eventVars, syslogVars, hassVars, equivVars,
                   filterVars>>

\* Time passes between two reports.
DedupTick ==
    /\ \E t \in DedupInstants : t > now /\ now' = t
    /\ UNCHANGED <<relayVars, extVars>>

DedupInit ==
    /\ now = StartTime
    /\ RelayIdle
    /\ EventIdle
    /\ SyslogIdle
    /\ HassIdle
    /\ MqttIdle

DedupNext ==
    \/ \E report \in DedupReports : is_interesting(report)
    \/ DedupTick

SpecDedup == DedupInit /\ [][DedupNext]_vars

\* C36: a call of is_interesting returns True if nothing is stored, or if
\* more than duration seconds have passed since the time stored, or if equiv
\* finds the report stored and the report given different, and False
\* otherwise; a call that returns True stores the report with the time of
\* the call, and a call that returns False leaves what is stored alone.
Thm_C36 ==
    [][\A report \in DedupReports :
          is_interesting(report)
          => LET interesting ==
                     \/ d_last = <<>>
                     \/ now - d_last[1].n > Secs(duration)
                     \/ ~equiv(d_last[1].report, report)
             IN  /\ d_ret' = interesting
                 /\ d_last' = IF interesting
                              THEN <<[report |-> report, n |-> now]>>
                              ELSE d_last]_vars

\* A report that differs from the one stored in its reception time only came
\* exactly duration seconds after it and was found not interesting.
Wit_C36 ==
    /\ d_last # <<>>
    /\ d_ret = FALSE
    /\ now - d_last[1].n = Secs(duration)
    /\ d_report # d_last[1].report
    /\ "temperature_C" \in DOMAIN d_report

---------------------------------------------------------------------------
(* equiv on its own: one call, for any two of DedupReports.                *)

EquivInit ==
    /\ now = StartTime
    /\ RelayIdle
    /\ EventIdle
    /\ SyslogIdle
    /\ HassIdle
    /\ DedupIdle
    /\ FilterIdle
    /\ q_j1 \in DedupReports
    /\ q_j2 \in DedupReports
    /\ q_pc = "call"
    /\ q_ret = FALSE

\* The call of equiv(j1, j2), from its first line to its return.
EquivCall ==
    /\ q_pc = "call"
    /\ q_pc' = "done"
    /\ q_ret' = equiv(q_j1, q_j2)
    /\ UNCHANGED <<now, relayVars, eventVars, syslogVars, hassVars, dedupVars,
                   filterVars, q_j1, q_j2>>

EquivNext == EquivCall

SpecEquiv == EquivInit /\ [][EquivNext]_vars

\* j without its boring keys.
Interesting(j) == [k \in DOMAIN j \ boring_keys |-> j[k]]

\* C37: equiv(j1, j2) returns True exactly when j1 and j2 without their
\* boring keys are the same mapping.
Cex_C37 ==
    q_pc = "done" => (q_ret <=> Interesting(q_j1) = Interesting(q_j2))

---------------------------------------------------------------------------
(* mqtt_filter: publish_dedup called, for any message of the mapped        *)
(* devices, while time passes.  A topic, a payload and a key are sequences *)
(* of pieces of text.                                                      *)

\* Clock readings explored: the first NumFilterInstants of FilterOffsets, in
\* ticks after StartTime.  A timeout of 1.5 s is three ticks: they meet the
\* expiry set at the first of them exactly, and miss it by one tick either
\* way.
NumFilterInstants == 6

FilterOffsets == <<0, 2, 3, 4, 6, 7, 9, 10>>

FilterInstants == {StartTime + FilterOffsets[j] : j \in 1..NumFilterInstants}

\* DEVICE_MAPPINGS: target and dedup, the latter in ticks (1.5 s, 1.5 s, 0).
DEVICE_MAPPINGS ==
    <<[target |-> "Livingroom", dedup |-> 3],
      [target |-> "Bedroom", dedup |-> 3],
      [target |-> "Garage", dedup |-> 0]>>

\* The payloads republished: two readings, as bytes.
FilterPayloads == {<<"2", "1">>, <<"2", "2">>}

\* target = m.group(1) + map["target"] + m.group(2)
Target(map) == <<"rtl_433/h/devices/", map.target, "/temperature_C">>

\* str(payload) of a bytes object
StrBytes(payload) == <<"b'">> \o payload \o <<"'">>

\* key = topic + str(payload)
Key(topic, payload) == topic \o StrBytes(payload)

\* Fresh with "dedup_cache[key] >= now".
FreshAtExpiry(key) == key \in DOMAIN f_cache /\ f_cache[key] >= now

\* if key in dedup_cache and dedup_cache[key] > now:
Fresh(key) == key \in DOMAIN f_cache /\ f_cache[key] > now

\* for k in list(dedup_cache.keys()): if dedup_cache[k] < now: del dedup_cache[k]
Purged(cache, t) == [k \in {x \in DOMAIN cache : ~(cache[x] < t)} |-> cache[k]]

\* publish_dedup(topic, payload, timeout), with now = time.time()
publish_dedup(topic, payload, timeout) ==
    /\ f_msg' = <<topic, payload>>
    /\ IF timeout <= 0
       THEN /\ f_pub' = TRUE
            /\ UNCHANGED <<f_cache, f_handled>>
       ELSE LET key == Key(topic, payload)
            IN  /\ f_pub' = ~Fresh(key)
                /\ f_cache' = Purged(Put(f_cache, key, now + timeout), now)
                /\ f_handled' = Put(f_handled, key, now)
    /\ UNCHANGED <<now, relayVars, eventVars, syslogVars, hassVars, dedupVars,
                   equivVars>>

\* Time passes between two messages.
FilterTick ==
    /\ \E t \in FilterInstants : t > now /\ now' = t
    /\ UNCHANGED <<relayVars, extVars>>

FilterInit ==
    /\ now = StartTime
    /\ RelayIdle
    /\ EventIdle
    /\ SyslogIdle
    /\ HassIdle
    /\ MqttIdle

\* filter_devices: publish_dedup(target, payload, map["dedup"]) for the
\* mapping the topic matches.
FilterNext ==
    \/ \E j \in 1..Len(DEVICE_MAPPINGS), payload \in FilterPayloads :
          publish_dedup(Target(DEVICE_MAPPINGS[j]), payload, DEVICE_MAPPINGS[j].dedup)
    \/ FilterTick

SpecFilter == FilterInit /\ [][FilterNext]_vars

\* C38: a call of publish_dedup with a timeout above 0 publishes the message
\* unless the latest call before it for the same topic and payload, published
\* or suppressed, was made less than the timeout ago; it sets the expiry of
\* that topic and payload to now + timeout, and it leaves no key in the cache
\* whose expiry is before now.
Thm_C38 ==
    [][\A j \in 1..Len(DEVICE_MAPPINGS), payload \in FilterPayloads :
          LET topic   == Target(DEVICE_MAPPINGS[j])
              timeout == DEVICE_MAPPINGS[j].dedup
              key     == Key(topic, payload)
          IN  (timeout > 0 /\ publish_dedup(topic, payload, timeout))
              => /\ f_pub' = ~(/\ key \in DOMAIN f_handled
                               /\ f_handled[key] + timeout > now)
                 /\ key \in DOMAIN f_cache'
                 /\ f_cache'[key] = now + timeout
                 /\ \A k \in DOMAIN f_cache' : f_cache'[k] >= now]_vars

\* A message was suppressed more than the timeout after the run began, so on
\* the strength of an expiry that a call after the first had set; the same
\* call dropped the key of another message from the cache.
Wit_C38 ==
    /\ f_msg # <<>>
    /\ ~f_pub
    /\ now - StartTime > 3
    /\ Key(f_msg[1], f_msg[2]) \in DOMAIN f_cache
    /\ DOMAIN f_cache # DOMAIN f_handled

===========================================================================
